---- MODULE Spec2Model ----
(***************************************************************************)
(* Model of the workout diary's data layer (src/src/lib/date-utils.ts).    *)
(* getWorkoutsForDate folds the flat rows of a left-join chain             *)
(*   workouts |x workout_exercises |x exercises |x sets                    *)
(* into workouts -> exercises -> sets.  The loop over the rows is modelled *)
(* one iteration per step; the final Array.from/sort/map is one step.      *)
(***************************************************************************)
EXTENDS Integers, Sequences, FiniteSets

VARIABLES rows, idx, workoutsMap, result, pc

vars == <<rows, idx, workoutsMap, result, pc>>

\* Two call sites of getWorkoutsForDate whose steps interleave: calls[c] holds
\* the locals of the invocation of call site c, maps the Map objects allocated.
VARIABLES calls, maps

callVars == <<calls, maps>>

\* One call of the date functions on a Date object: dates is the heap of Date
\* objects (dates[1] is the argument), startOfDay and endOfDay are references
\* into it (0 before they are computed), label is what formatDateWithOrdinal
\* produced.
VARIABLES dates, startOfDay, endOfDay, label

dateVars == <<dates, startOfDay, endOfDay, label>>

\* The workouts table and the outcome of the latest data-function call.
VARIABLES db, lastCall

dataVars == <<db, lastCall>>

\* The application around the data layer: action is the latest server action
\* run, page the latest render of the edit page, nav the date navigation of
\* the dashboard, form a workout form in the browser.
VARIABLES action, page, nav, form

appVars == <<action, page, nav, form>>

allVars == <<vars, callVars, dateVars, dataVars, appVars>>

\* Longest input row sequence explored.
MaxRows == 3

----------------------------------------------------------------------------
(* Nullable values: null is the empty tuple, a present value v is <<v>>.   *)

None == << >>

Some(v) == <<v>>

\* JavaScript truthiness of an object-or-null branch of a row.
Truthy(opt) == opt # None

Val(opt) == Head(opt)

Range(s) == {s[i] : i \in DOMAIN s}

----------------------------------------------------------------------------
(* The tables the query reads (src/src/db/schema.ts).  Within one query    *)
(* result an id always carries the same column values.  The schema has no  *)
(* unique constraint on (workout_id, exercise_id), (workout_id, order) or  *)
(* (workout_exercise_id, set_number), so the tables hold two join records  *)
(* for one exercise, two join records with one order and two sets with one *)
(* set number.                                                             *)

WorkoutsTable ==
  { [id |-> 1, name |-> Some("Leg Day"), startedAt |-> 30, completedAt |-> Some(35)],
    [id |-> 2, name |-> None,            startedAt |-> 20, completedAt |-> None],
    [id |-> 3, name |-> Some("Pull"),    startedAt |-> 10, completedAt |-> None] }

ExercisesTable ==
  { [id |-> 100, name |-> "Squat"],
    [id |-> 101, name |-> "Bench"] }

WorkoutExercisesTable ==
  { [id |-> 10, workoutId |-> 1, exerciseId |-> 100, order |-> 1],
    [id |-> 11, workoutId |-> 1, exerciseId |-> 101, order |-> 0],
    [id |-> 12, workoutId |-> 1, exerciseId |-> 101, order |-> 2],
    [id |-> 13, workoutId |-> 1, exerciseId |-> 101, order |-> 1],
    [id |-> 20, workoutId |-> 2, exerciseId |-> 100, order |-> 0] }

SetsTable ==
  { [id |-> 1, workoutExerciseId |-> 10, setNumber |-> 2,
     weight |-> Some("225"), reps |-> Some(5), durationSeconds |-> None],
    [id |-> 2, workoutExerciseId |-> 10, setNumber |-> 1,
     weight |-> Some("225"), reps |-> Some(5), durationSeconds |-> None],
    [id |-> 3, workoutExerciseId |-> 10, setNumber |-> 1,
     weight |-> None, reps |-> None, durationSeconds |-> Some(60)],
    [id |-> 4, workoutExerciseId |-> 11, setNumber |-> 1,
     weight |-> Some("135"), reps |-> Some(8), durationSeconds |-> None],
    [id |-> 5, workoutExerciseId |-> 12, setNumber |-> 2,
     weight |-> Some("135"), reps |-> Some(8), durationSeconds |-> None] }

\* One side of a left join: the matching records, or a single null.
LeftSide(matches) == IF matches = {} THEN {None} ELSE {Some(m) : m \in matches}

\* The rows of the left-join chain of the select in getWorkoutsForDate.
JoinRows ==
  UNION { UNION { { [workout |-> Some(w),
                     workoutExercise |-> we,
                     exercise |-> IF we = None THEN None
                                  ELSE CHOOSE e \in LeftSide({x \in ExercisesTable :
                                                   x.id = Val(we).exerciseId}) : TRUE,
                     set |-> s] :
                    s \in IF we = None THEN {None}
                          ELSE LeftSide({x \in SetsTable :
                                           x.workoutExerciseId = Val(we).id}) } :
                  we \in LeftSide({x \in WorkoutExercisesTable : x.workoutId = w.id}) } :
          w \in WorkoutsTable }

\* Rows with a branch missing that the loop guards against (lines 112, 129, 140).
PartialRows ==
  LET w  == CHOOSE x \in WorkoutsTable : x.id = 1
      we == CHOOSE x \in WorkoutExercisesTable : x.id = 10
      e  == CHOOSE x \in ExercisesTable : x.id = 100
      s  == CHOOSE x \in SetsTable : x.id = 1
  IN { [workout |-> None,    workoutExercise |-> Some(we), exercise |-> Some(e), set |-> Some(s)],
       [workout |-> Some(w), workoutExercise |-> Some(we), exercise |-> None,    set |-> Some(s)],
       [workout |-> Some(w), workoutExercise |-> None,     exercise |-> Some(e), set |-> Some(s)],
       [workout |-> Some(w), workoutExercise |-> None,     exercise |-> None,    set |-> None],
       [workout |-> Some(w), workoutExercise |-> Some(we), exercise |-> Some(e), set |-> None] }

InputRows == JoinRows \cup PartialRows

RECURSIVE SeqsUpTo(_, _)
SeqsUpTo(S, n) ==
  IF n = 0 THEN { << >> }
  ELSE LET shorter == SeqsUpTo(S, n - 1)
       IN shorter \cup { Append(q, x) : q \in {t \in shorter : Len(t) = n - 1}, x \in S }

----------------------------------------------------------------------------
(* JavaScript Map: insertion-ordered, modelled as a sequence of            *)
(* [key, value] entries in insertion order.                                *)

MapHas(m, k) == \E i \in DOMAIN m : m[i].key = k

MapIndex(m, k) == CHOOSE i \in DOMAIN m : m[i].key = k

MapGet(m, k) == m[MapIndex(m, k)].value

\* Map.prototype.set: a new key goes last, an existing key keeps its place.
MapSet(m, k, v) ==
  IF MapHas(m, k) THEN [m EXCEPT ![MapIndex(m, k)].value = v]
  ELSE Append(m, [key |-> k, value |-> v])

\* Array.from(map.values())
MapValues(m) == [i \in DOMAIN m |-> m[i].value]

----------------------------------------------------------------------------
(* Array.prototype.sort with a comparator: stable (ECMAScript 2019), so an *)
(* element goes after every element that compares lower and after every    *)
(* earlier element that compares equal.                                    *)

\* Mutant: a sort that is not stable (equal elements come out reversed).
UnstableSort(s, cmp) ==
  LET rank(i) == Cardinality({j \in DOMAIN s : cmp[j, i] < 0})
                 + Cardinality({j \in DOMAIN s : j > i /\ cmp[j, i] = 0}) + 1
  IN [p \in DOMAIN s |-> s[CHOOSE i \in DOMAIN s : rank(i) = p]]

\* cmp[j, i] is the comparator's value for (s[j], s[i]).
StableSort(s, cmp) ==
  LET rank(i) == Cardinality({j \in DOMAIN s : cmp[j, i] < 0})
                 + Cardinality({j \in DOMAIN s : j < i /\ cmp[j, i] = 0}) + 1
  IN [p \in DOMAIN s |-> s[CHOOSE i \in DOMAIN s : rank(i) = p]]

\* Mutant: the comparator's operands swapped.
CompareOrderDescending(a, b) == b.order - a.order

\* (a, b) => a.order - b.order
CompareOrder(a, b) == a.order - b.order

\* (a, b) => a.setNumber - b.setNumber
CompareSetNumber(a, b) == a.setNumber - b.setNumber

\* exercise.sets.sort((a, b) => a.setNumber - b.setNumber)
SortSets(sets) ==
  StableSort(sets, [a, b \in DOMAIN sets |-> CompareSetNumber(sets[a], sets[b])])

----------------------------------------------------------------------------
(* One iteration of `for (const row of workoutsData)`.                     *)

\* Mutant: rows without an exercise are skipped as well.
SkipRowWithoutExercise(row) == ~Truthy(row.workout) \/ ~Truthy(row.exercise)

\* if (!row.workout) continue
SkipRow(row) == ~Truthy(row.workout)

\* the value stored by workoutsMap.set(workoutId, {...})
NewWorkoutEntry(row) ==
  [id          |-> Val(row.workout).id,
   name        |-> Val(row.workout).name,
   startedAt   |-> Val(row.workout).startedAt,
   completedAt |-> Val(row.workout).completedAt,
   exercises   |-> << >>]

\* if (!workoutsMap.has(workoutId)) workoutsMap.set(workoutId, {...})
EnsureWorkout(map, row) ==
  LET workoutId == Val(row.workout).id
  IN IF ~MapHas(map, workoutId) THEN MapSet(map, workoutId, NewWorkoutEntry(row))
     ELSE map

\* Mutant: the join record is not checked.
HasExerciseOnly(row) == Truthy(row.exercise)

\* if (row.exercise && row.workoutExercise)
HasExerciseBranch(row) == Truthy(row.exercise) /\ Truthy(row.workoutExercise)

\* Mutant: exercises keyed by the join record's id.
ExerciseKeyByJoinRecord(row) == Val(row.workoutExercise).id

\* const exerciseId = row.exercise.id
ExerciseKey(row) == Val(row.exercise).id

\* the value stored by workout.exercises.set(exerciseId, {...})
NewExerciseEntry(row) ==
  [name  |-> Val(row.exercise).name,
   order |-> Val(row.workoutExercise).order,
   sets  |-> << >>]

\* Mutant: name and order are rewritten by every row of the exercise.
EnsureExerciseRewrite(exs, row) ==
  IF ~MapHas(exs, ExerciseKey(row)) THEN MapSet(exs, ExerciseKey(row), NewExerciseEntry(row))
  ELSE MapSet(exs, ExerciseKey(row),
              [NewExerciseEntry(row) EXCEPT !.sets = MapGet(exs, ExerciseKey(row)).sets])

\* Mutant: the has() check is missing, every row starts the exercise afresh.
EnsureExerciseReset(exs, row) == MapSet(exs, ExerciseKey(row), NewExerciseEntry(row))

\* if (!workout.exercises.has(exerciseId)) workout.exercises.set(exerciseId, {...})
EnsureExercise(exs, row) ==
  IF ~MapHas(exs, ExerciseKey(row)) THEN MapSet(exs, ExerciseKey(row), NewExerciseEntry(row))
  ELSE exs

\* the record pushed by exercise.sets.push({...})
NewSet(row) ==
  [setNumber       |-> Val(row.set).setNumber,
   weight          |-> Val(row.set).weight,
   reps            |-> Val(row.set).reps,
   durationSeconds |-> Val(row.set).durationSeconds]

\* Mutant: a set whose number the exercise already holds is not pushed.
PushSetUniqueNumber(exs, row) ==
  IF Truthy(row.set) /\ MapHas(exs, ExerciseKey(row))
  THEN LET exercise == MapGet(exs, ExerciseKey(row))
       IN IF \E k \in DOMAIN exercise.sets :
               exercise.sets[k].setNumber = Val(row.set).setNumber
          THEN exs
          ELSE MapSet(exs, ExerciseKey(row),
                      [exercise EXCEPT !.sets = Append(@, NewSet(row))])
  ELSE exs

\* if (row.set) { const exercise = ...get(exerciseId); if (exercise) exercise.sets.push({...}) }
PushSet(exs, row) ==
  IF Truthy(row.set) /\ MapHas(exs, ExerciseKey(row))
  THEN LET exercise == MapGet(exs, ExerciseKey(row))
       IN MapSet(exs, ExerciseKey(row),
                 [exercise EXCEPT !.sets = Append(@, NewSet(row))])
  ELSE exs

\* A property read on null raises a TypeError: row.workout.id (line 114),
\* row.exercise.id (line 130), row.workoutExercise.order (line 135).
ReadsNull(map, row) ==
  IF SkipRow(row) THEN FALSE
  ELSE IF ~Truthy(row.workout) THEN TRUE
  ELSE IF ~HasExerciseBranch(row) THEN FALSE
  ELSE IF ~Truthy(row.exercise) THEN TRUE
  ELSE LET workout == MapGet(EnsureWorkout(map, row), Val(row.workout).id)
       IN ~MapHas(workout.exercises, ExerciseKey(row)) /\ ~Truthy(row.workoutExercise)

\* Mutant: a row without a workout is not skipped but filed under the workout
\* of the row before it (a `workout` variable that outlives the iteration).
ProcessRowStaleWorkout(map, row) ==
  IF SkipRow(row) /\ (map = << >> \/ ~HasExerciseBranch(row)) THEN map
  ELSE LET workoutId == IF SkipRow(row) THEN map[Len(map)].key ELSE Val(row.workout).id
           map1      == IF SkipRow(row) THEN map ELSE EnsureWorkout(map, row)
           workout   == MapGet(map1, workoutId)
       IN IF HasExerciseBranch(row)
          THEN MapSet(map1, workoutId,
                      [workout EXCEPT
                         !.exercises = PushSet(EnsureExercise(@, row), row)])
          ELSE map1

\* The body of the loop for one row that raises nothing.
ProcessRow(map, row) ==
  IF SkipRow(row) THEN map
  ELSE LET workoutId == Val(row.workout).id
           map1      == EnsureWorkout(map, row)
           workout   == MapGet(map1, workoutId)
       IN IF HasExerciseBranch(row)
          THEN MapSet(map1, workoutId,
                      [workout EXCEPT
                         !.exercises = PushSet(EnsureExercise(@, row), row)])
          ELSE map1

----------------------------------------------------------------------------
(* return Array.from(workoutsMap.values()).map(...)                        *)

\* .map(({ order, ...exercise }) => ({ ...exercise, sets: exercise.sets.sort(...) }))
ShapeExercise(entry) ==
  [name |-> entry.name, sets |-> SortSets(entry.sets)]

\* Mutant: the exercises are not sorted.
UnsortedExercises(workout) == MapValues(workout.exercises)

\* Array.from(workout.exercises.values()).sort((a, b) => a.order - b.order)
SortedExercises(workout) ==
  LET xs == MapValues(workout.exercises)
  IN StableSort(xs, [a, b \in DOMAIN xs |-> CompareOrder(xs[a], xs[b])])

\* (workout) => ({ ...workout, exercises: ... })
ShapeWorkout(workout) ==
  [workout EXCEPT
     !.exercises = LET sorted == SortedExercises(workout)
                   IN [j \in DOMAIN sorted |-> ShapeExercise(sorted[j])]]

\* Mutant: the workouts are sorted by ascending startedAt.
CompareStartedAt(a, b) == a.startedAt - b.startedAt

WorkoutsByStartedAt(map) ==
  LET ws == MapValues(map)
  IN StableSort(ws, [a, b \in DOMAIN ws |-> CompareStartedAt(ws[a], ws[b])])

\* Array.from(workoutsMap.values())
WorkoutsInOrder(map) == MapValues(map)

Shape(map) ==
  LET ws == WorkoutsInOrder(map) IN [p \in DOMAIN ws |-> ShapeWorkout(ws[p])]

\* exercise.sets.sort sorts the array held by the map entry in place.
SetsSortedInPlace(map) ==
  [p \in DOMAIN map |->
     [map[p] EXCEPT
        !.value.exercises =
           [j \in DOMAIN @ |->
              [@[j] EXCEPT !.value.sets = SortSets(@)]]]]

\* The whole fold, for a row sequence that raises nothing.
RECURSIVE FoldRows(_)
FoldRows(rs) ==
  IF rs = << >> THEN << >>
  ELSE ProcessRow(FoldRows(SubSeq(rs, 1, Len(rs) - 1)), rs[Len(rs)])

Aggregate(rs) == Shape(FoldRows(rs))

----------------------------------------------------------------------------
(* The state machine: rows is workoutsData, idx the number of rows the     *)
(* loop has consumed, pc the position: "loop", "done" (returned) or        *)
(* "threw".                                                                *)

CallSites == {1, 2}

IdleCall == [rows |-> << >>, idx |-> 0, result |-> << >>, pc |-> "idle"]

CallsIdle ==
  /\ calls = [c \in CallSites |-> IdleCall]
  /\ maps = [c \in CallSites |-> << >>]

\* No call of the date functions is modelled.
DatesIdle ==
  /\ dates = << >>
  /\ startOfDay = 0
  /\ endOfDay = 0
  /\ label = << >>

\* No data-function call is modelled and the workouts table is empty.
DataIdle ==
  /\ db = << >>
  /\ lastCall = << >>

\* No server action, page render, navigation or form is modelled.
AppIdle ==
  /\ action = << >>
  /\ page = << >>
  /\ nav = << >>
  /\ form = << >>

Init ==
  /\ rows \in SeqsUpTo(InputRows, MaxRows)
  /\ idx = 0
  /\ workoutsMap = << >>
  /\ result = << >>
  /\ pc = "loop"
  /\ CallsIdle
  /\ DatesIdle
  /\ DataIdle
  /\ AppIdle

LoopStep ==
  /\ pc = "loop"
  /\ idx < Len(rows)
  /\ LET row == rows[idx + 1]
     IN IF ReadsNull(workoutsMap, row)
        THEN /\ pc' = "threw"
             /\ UNCHANGED <<idx, workoutsMap>>
        ELSE /\ workoutsMap' = ProcessRow(workoutsMap, row)
             /\ idx' = idx + 1
             /\ pc' = "loop"
  /\ UNCHANGED <<rows, result>>
  /\ UNCHANGED <<callVars, dateVars, dataVars, appVars>>

Return ==
  /\ pc = "loop"
  /\ idx = Len(rows)
  /\ result' = Shape(workoutsMap)
  /\ workoutsMap' = SetsSortedInPlace(workoutsMap)
  /\ pc' = "done"
  /\ UNCHANGED <<rows, idx>>
  /\ UNCHANGED <<callVars, dateVars, dataVars, appVars>>

Next == LoopStep \/ Return

\* One invocation alone: no other call site is active.
Spec == Init /\ [][Next]_allVars

----------------------------------------------------------------------------
(* What the input rows say, read off the rows alone.                       *)

\* Indices of the rows that carry workout id w.
RowsOfWorkout(w) ==
  {i \in DOMAIN rows : rows[i].workout # None /\ rows[i].workout[1].id = w}

InputWorkoutIds == {rows[i].workout[1].id : i \in {k \in DOMAIN rows : rows[k].workout # None}}

\* Indices of the rows of workout w that carry exercise e and a join record.
RowsOfExercise(w, e) ==
  {i \in RowsOfWorkout(w) : /\ rows[i].exercise # None
                            /\ rows[i].workoutExercise # None
                            /\ rows[i].exercise[1].id = e}

InputExerciseIds(w) ==
  {rows[i].exercise[1].id :
     i \in {k \in RowsOfWorkout(w) : rows[k].exercise # None /\ rows[k].workoutExercise # None}}

Min(S) == CHOOSE x \in S : \A y \in S : x <= y

FirstRowOfWorkout(w) == Min(RowsOfWorkout(w))

FirstRowOfExercise(w, e) == Min(RowsOfExercise(w, e))

\* The order of the join record on the first row that mentions exercise e of workout w.
FirstOrder(w, e) == rows[FirstRowOfExercise(w, e)].workoutExercise[1].order

FirstName(w, e) == rows[FirstRowOfExercise(w, e)].exercise[1].name

SetRecord(s) ==
  [setNumber |-> s.setNumber, weight |-> s.weight, reps |-> s.reps,
   durationSeconds |-> s.durationSeconds]

\* The set rows of exercise e of workout w, in row order.
RECURSIVE InputSetsUpTo(_, _, _)
InputSetsUpTo(w, e, n) ==
  IF n = 0 THEN << >>
  ELSE IF n \in RowsOfExercise(w, e) /\ rows[n].set # None
       THEN Append(InputSetsUpTo(w, e, n - 1), SetRecord(rows[n].set[1]))
       ELSE InputSetsUpTo(w, e, n - 1)

InputSets(w, e) == InputSetsUpTo(w, e, Len(rows))

\* A sequence as a multiset: each element with the number of its occurrences.
SeqToBag(s) == [x \in Range(s) |-> Cardinality({i \in DOMAIN s : s[i] = x})]

IsNonDecreasing(s) == \A i, j \in DOMAIN s : i < j => s[i] <= s[j]

\* The ways to read the exercises of output workout p as the input's exercise
\* ids, one exercise per id, the names agreeing (the output carries no id).
Matchings(p) ==
  LET w == result[p].id
      D == DOMAIN result[p].exercises
  IN {f \in [D -> InputExerciseIds(w)] :
        /\ \A j, k \in D : j # k => f[j] # f[k]
        /\ \A e \in InputExerciseIds(w) : \E j \in D : f[j] = e
        /\ \A j \in D : result[p].exercises[j].name = FirstName(w, f[j])}

----------------------------------------------------------------------------
\* C1: the workout ids of the result are exactly the distinct workout ids of
\* the rows whose workout is non-null: none is missing and none is invented.
C1_WorkoutIdsComplete ==
  pc = "done" => {result[p].id : p \in DOMAIN result} = InputWorkoutIds

\* C1 witness: a finished call whose rows hold two workouts, one of them only on
\* rows without an exercise, and a row with a null workout.
C1_Witness ==
  /\ pc = "done"
  /\ Cardinality(InputWorkoutIds) = 2
  /\ \E i \in DOMAIN rows : rows[i].workout = None
  /\ \E w \in InputWorkoutIds : InputExerciseIds(w) = {}

\* C2: no workout id occurs twice in the result, and each output workout holds
\* exactly one exercise entry per exercise id of its rows, however many rows
\* mention the workout or the exercise.
C2_NoDuplicates ==
  pc = "done" =>
    /\ \A p, q \in DOMAIN result : p # q => result[p].id # result[q].id
    /\ \A p \in DOMAIN result :
         /\ Len(result[p].exercises) = Cardinality(InputExerciseIds(result[p].id))
         /\ Matchings(p) # {}

\* C2 witness: one workout on three rows, two of its exercises, one of them on
\* two rows.
C2_Witness ==
  /\ pc = "done"
  /\ \E w \in InputWorkoutIds :
       /\ Cardinality(RowsOfWorkout(w)) = 3
       /\ Cardinality(InputExerciseIds(w)) = 2
       /\ \E e \in InputExerciseIds(w) : Cardinality(RowsOfExercise(w, e)) = 2

\* C3: the set list of every output exercise holds exactly one record per row
\* that has the workout id, the exercise id, a join record and a set: as a
\* multiset it equals the sets of those rows.
C3_SetsExact ==
  pc = "done" =>
    \A p \in DOMAIN result :
      \E f \in Matchings(p) :
        \A j \in DOMAIN result[p].exercises :
          SeqToBag(result[p].exercises[j].sets) = SeqToBag(InputSets(result[p].id, f[j]))

\* C3 witness: workout 1 / exercise 100 on two rows with set numbers 1 and 2
\* gives one workout with one exercise holding the two sets.
C3_Witness ==
  /\ pc = "done"
  /\ Len(rows) = 2
  /\ RowsOfExercise(1, 100) = {1, 2}
  /\ rows[1].set # None /\ rows[1].set[1].setNumber = 1
  /\ rows[2].set # None /\ rows[2].set[1].setNumber = 2
  /\ Len(result) = 1
  /\ Len(result[1].exercises) = 1
  /\ Len(result[1].exercises[1].sets) = 2

\* C4: in the result the exercises of each workout are in non-decreasing order
\* of the order value of their join record (the one on the first row of the
\* exercise), and the sets of each exercise in non-decreasing setNumber order.
C4_Sorted ==
  pc = "done" =>
    \A p \in DOMAIN result :
      /\ \E f \in Matchings(p) :
           IsNonDecreasing([j \in DOMAIN result[p].exercises |->
                              FirstOrder(result[p].id, f[j])])
      /\ \A j \in DOMAIN result[p].exercises :
           IsNonDecreasing([k \in DOMAIN result[p].exercises[j].sets |->
                              result[p].exercises[j].sets[k].setNumber])

\* C4 witness: the rows bring the exercise with the greater order first, and
\* the set with the greater set number first.
C4_Witness ==
  /\ pc = "done"
  /\ \E w \in InputWorkoutIds :
       /\ \E e1, e2 \in InputExerciseIds(w) :
            /\ FirstRowOfExercise(w, e1) < FirstRowOfExercise(w, e2)
            /\ FirstOrder(w, e1) > FirstOrder(w, e2)
       /\ \E e \in InputExerciseIds(w) :
            /\ Len(InputSets(w, e)) = 2
            /\ InputSets(w, e)[1].setNumber > InputSets(w, e)[2].setNumber

\* C5: the sorts are stable: exercises of one workout with equal order keep the
\* order in which their ids were first met, and sets of one exercise with
\* equal setNumber keep the order of their rows.
C5_StableSort ==
  pc = "done" =>
    \A p \in DOMAIN result :
      \E f \in Matchings(p) :
        LET w == result[p].id
            D == DOMAIN result[p].exercises
        IN /\ \A j, k \in D :
                (j < k /\ FirstOrder(w, f[j]) = FirstOrder(w, f[k]))
                  => FirstRowOfExercise(w, f[j]) < FirstRowOfExercise(w, f[k])
           /\ \A j \in D :
                \A n \in {s.setNumber : s \in Range(InputSets(w, f[j]))} :
                  LET HasNumber(s) == s.setNumber = n
                  IN SelectSeq(result[p].exercises[j].sets, HasNumber)
                       = SelectSeq(InputSets(w, f[j]), HasNumber)

\* C5 witness: two exercises of one workout with equal order, and an exercise
\* with two different sets of equal set number.
C5_Witness ==
  /\ pc = "done"
  /\ \E w \in InputWorkoutIds :
       /\ \E e1, e2 \in InputExerciseIds(w) :
            e1 # e2 /\ FirstOrder(w, e1) = FirstOrder(w, e2)
       /\ \E e \in InputExerciseIds(w) :
            /\ Len(InputSets(w, e)) = 2
            /\ InputSets(w, e)[1].setNumber = InputSets(w, e)[2].setNumber
            /\ InputSets(w, e)[1] # InputSets(w, e)[2]

\* The rows that carry a workout are in descending startedAt order.
RowsDescending ==
  \A i, j \in DOMAIN rows :
    (i < j /\ rows[i].workout # None /\ rows[j].workout # None)
      => rows[i].workout[1].startedAt >= rows[j].workout[1].startedAt

\* C6: output workouts are in the order in which their ids first occur in the
\* rows; so rows in descending startedAt order give workouts in descending
\* startedAt order.
C6_WorkoutOrder ==
  pc = "done" =>
    /\ \A p, q \in DOMAIN result :
         p < q => FirstRowOfWorkout(result[p].id) < FirstRowOfWorkout(result[q].id)
    /\ RowsDescending =>
         \A p, q \in DOMAIN result : p < q => result[p].startedAt >= result[q].startedAt

\* C6 witness: three rows in descending startedAt order holding two workouts.
C6_Witness ==
  /\ pc = "done"
  /\ Len(rows) = 3
  /\ RowsDescending
  /\ Len(result) = 2
  /\ result[1].startedAt > result[2].startedAt

\* What one loop iteration may do to the entries the map already holds.
EntriesKept ==
  \A p \in DOMAIN workoutsMap :
    /\ p \in DOMAIN workoutsMap'
    /\ workoutsMap'[p].key = workoutsMap[p].key
    /\ workoutsMap'[p].value.id = workoutsMap[p].value.id
    /\ workoutsMap'[p].value.name = workoutsMap[p].value.name
    /\ workoutsMap'[p].value.startedAt = workoutsMap[p].value.startedAt
    /\ workoutsMap'[p].value.completedAt = workoutsMap[p].value.completedAt
    /\ \A j \in DOMAIN workoutsMap[p].value.exercises :
         LET old == workoutsMap[p].value.exercises[j]
         IN /\ j \in DOMAIN workoutsMap'[p].value.exercises
            /\ LET new == workoutsMap'[p].value.exercises[j]
               IN /\ new.key = old.key
                  /\ new.value.name = old.value.name
                  /\ new.value.order = old.value.order
                  /\ \/ new.value.sets = old.value.sets
                     \/ /\ rows[idx + 1].set # None
                        /\ new.value.sets
                             = Append(old.value.sets, SetRecord(rows[idx + 1].set[1]))

\* C7: a loop iteration leaves the copied fields of every workout and exercise
\* entry that already exists unchanged; it can only append the row's set to an
\* exercise's set list.
C7_FirstRowWins == [][(pc = "loop" /\ pc' = "loop") => EntriesKept]_vars

\* C7 witness: two rows of one workout and one exercise whose join records
\* carry different order values have been consumed, the second with a set.
C7_Witness ==
  /\ pc = "loop"
  /\ idx = 2
  /\ \E w \in InputWorkoutIds : \E e \in InputExerciseIds(w) :
       /\ {1, 2} \subseteq RowsOfExercise(w, e)
       /\ rows[1].workoutExercise[1].order # rows[2].workoutExercise[1].order
       /\ rows[2].set # None
       /\ Len(workoutsMap) = 1
       /\ workoutsMap[1].value.exercises[1].value.order = rows[1].workoutExercise[1].order

----------------------------------------------------------------------------
(* The same rows in another order.                                         *)

RowOrders(n) == {f \in [1..n -> 1..n] : \A i, j \in 1..n : i # j => f[i] # f[j]}

Permuted(rs, f) == [i \in DOMAIN rs |-> rs[f[i]]]

\* A result with the order of workouts, exercises and sets forgotten.
Content(res) ==
  SeqToBag([p \in DOMAIN res |->
    [id |-> res[p].id, name |-> res[p].name,
     startedAt |-> res[p].startedAt, completedAt |-> res[p].completedAt,
     exercises |-> SeqToBag([j \in DOMAIN res[p].exercises |->
                     [name |-> res[p].exercises[j].name,
                      sets |-> SeqToBag(res[p].exercises[j].sets)]])]])

\* The exercise list (names, and sets in order) of each workout id of a result.
ExerciseLists(res) == {<<res[p].id, res[p].exercises>> : p \in DOMAIN res}

\* C8: every permutation of the rows aggregates to the same content: the same
\* workouts, each with the same exercises, each with the same collection of
\* sets, order inside the result ignored.
C8_PermutationSameContent ==
  pc = "done" =>
    \A f \in RowOrders(Len(rows)) :
      Content(Aggregate(Permuted(rows, f))) = Content(result)

\* C8 witness: three different rows, two workouts, an exercise with two sets.
C8_Witness ==
  /\ pc = "done"
  /\ Len(rows) = 3
  /\ Cardinality(Range(rows)) = 3
  /\ Len(result) = 2
  /\ \E p \in DOMAIN result : \E j \in DOMAIN result[p].exercises :
       Len(result[p].exercises[j].sets) = 2

\* C9 as claimed: for every row sequence, every permutation of the rows gives
\* each workout the same exercise order and each exercise the same set order.
C9_PermutationSameOrder ==
  pc = "done" =>
    \A f \in RowOrders(Len(rows)) :
      ExerciseLists(Aggregate(Permuted(rows, f))) = ExerciseLists(result)

\* The sort keys decide every comparison: within a workout an exercise id
\* comes with one order value and different exercise ids with different order
\* values, and set rows of one exercise with equal setNumber are equal sets.
SortKeysDistinct ==
  \A w \in InputWorkoutIds :
    /\ \A e1, e2 \in InputExerciseIds(w) :
         \A i \in RowsOfExercise(w, e1), k \in RowsOfExercise(w, e2) :
           (rows[i].workoutExercise[1].order = rows[k].workoutExercise[1].order)
             <=> (e1 = e2)
    /\ \A e \in InputExerciseIds(w) :
         \A s1, s2 \in Range(InputSets(w, e)) :
           s1.setNumber = s2.setNumber => s1 = s2

\* C9 amended: when the sort keys are distinct, every permutation of the rows
\* gives each workout the same exercise order and each exercise the same set
\* order.
C9_PermutationSameOrderDistinctKeys ==
  (pc = "done" /\ SortKeysDistinct) =>
    \A f \in RowOrders(Len(rows)) :
      ExerciseLists(Aggregate(Permuted(rows, f))) = ExerciseLists(result)

\* C9 witness: distinct sort keys, two exercises in one workout arriving in
\* descending order, one of them with two sets arriving in descending order.
C9_Witness ==
  /\ pc = "done"
  /\ SortKeysDistinct
  /\ Len(rows) = 3
  /\ \E w \in InputWorkoutIds :
       /\ \E e1, e2 \in InputExerciseIds(w) :
            /\ FirstRowOfExercise(w, e1) < FirstRowOfExercise(w, e2)
            /\ FirstOrder(w, e1) > FirstOrder(w, e2)
       /\ \E e \in InputExerciseIds(w) :
            /\ Len(InputSets(w, e)) = 2
            /\ InputSets(w, e)[1].setNumber > InputSets(w, e)[2].setNumber

\* C10: the call never raises and always goes on to return; a workout whose
\* rows all lack an exercise or a join record is in the result with no
\* exercise, and an exercise whose rows all lack a set is there with no set.
C10_PartialRowsTolerated ==
  /\ pc # "threw"
  /\ pc = "loop" => ENABLED Next
  /\ pc = "done" =>
       /\ \A w \in InputWorkoutIds :
            InputExerciseIds(w) = {} =>
              \E p \in DOMAIN result : result[p].id = w /\ result[p].exercises = << >>
       /\ \A p \in DOMAIN result :
            \E f \in Matchings(p) :
              \A j \in DOMAIN result[p].exercises :
                InputSets(result[p].id, f[j]) = << >>
                  => result[p].exercises[j].sets = << >>

\* C10 witness: a finished call over a workout whose rows lack the exercise or
\* the join record though a set is there, and an exercise of another workout
\* that has no set.
C10_Witness ==
  /\ pc = "done"
  /\ \E w \in InputWorkoutIds :
       /\ InputExerciseIds(w) = {}
       /\ \E i \in RowsOfWorkout(w) : rows[i].exercise = None /\ rows[i].set # None
       /\ \E i \in RowsOfWorkout(w) : rows[i].workoutExercise = None /\ rows[i].exercise # None
  /\ \E w \in InputWorkoutIds : \E e \in InputExerciseIds(w) : InputSets(w, e) = << >>

----------------------------------------------------------------------------
\* The row sequence without its i-th row.
WithoutRow(rs, i) == [k \in 1..(Len(rs) - 1) |-> IF k < i THEN rs[k] ELSE rs[k + 1]]

\* C11: a row with a null workout contributes nothing: without it the result
\* is the same.  A row with a null exercise or a null join record contributes
\* no exercise and no set: without it every workout has the same exercise
\* list, and only a workout without exercises can be gone.
C11_NullRowsContributeNothing ==
  pc = "done" =>
    \A i \in DOMAIN rows :
      LET without == Aggregate(WithoutRow(rows, i))
      IN /\ rows[i].workout = None => without = result
         /\ (rows[i].exercise = None \/ rows[i].workoutExercise = None) =>
              /\ ExerciseLists(without) \subseteq ExerciseLists(result)
              /\ \A l \in ExerciseLists(result) \ ExerciseLists(without) :
                   /\ l[2] = << >>
                   /\ rows[i].workout # None /\ l[1] = rows[i].workout[1].id

\* C11 witness: after a row that gives workout 1 an exercise with a set come a
\* row without a workout and a row of workout 1 without an exercise, both with
\* a set.
C11_Witness ==
  /\ pc = "done"
  /\ Len(rows) = 3
  /\ RowsOfExercise(1, 100) = {1}
  /\ rows[1].set # None
  /\ rows[2].workout = None /\ rows[2].exercise # None /\ rows[2].set # None
  /\ rows[3].workout # None /\ rows[3].exercise = None /\ rows[3].set # None
  /\ Len(result) = 1
  /\ Len(result[1].exercises) = 1
  /\ Len(result[1].exercises[1].sets) = 1

----------------------------------------------------------------------------
(* Two call sites invoking the aggregation again and again, their steps    *)
(* interleaved in any order (an over-approximation of concurrent requests: *)
(* the loop itself has no await).                                          *)

\* Longest row sequence a call site passes.
MaxCallRows == 2

\* The rows the call sites draw from: two set rows of one exercise of workout
\* 1 and the row of workout 2.
CallRowUniverse ==
  {r \in JoinRows : r.set # None /\ Val(r.set).id \in {1, 2}}
    \cup {r \in JoinRows : Val(r.workout).id = 2}

\* Mutant: one module-level Map used by every invocation.
MapSlotShared(c) == 1

\* const workoutsMap is declared inside the function: the invocation of call
\* site c works on a Map of its own.
MapSlot(c) == c

\* Mutant: the Map of the previous invocation is kept.
KeptMap(old) == old

\* new Map<number, WorkoutWithExerciseMap>()
FreshMap(old) == << >>

\* No single invocation is modelled by rows, idx, workoutsMap, result, pc.
LoneCallIdle ==
  /\ rows = << >>
  /\ idx = 0
  /\ workoutsMap = << >>
  /\ result = << >>
  /\ pc = "idle"

CallsInit == LoneCallIdle /\ CallsIdle /\ DatesIdle /\ DataIdle /\ AppIdle

\* Call site c invokes the function on a row sequence.
CallStart(c) ==
  /\ calls[c].pc \in {"idle", "done"}
  /\ \E rs \in SeqsUpTo(CallRowUniverse, MaxCallRows) :
       calls' = [calls EXCEPT ![c] = [rows |-> rs, idx |-> 0, result |-> << >>, pc |-> "loop"]]
  /\ maps' = [maps EXCEPT ![MapSlot(c)] = FreshMap(@)]
  /\ UNCHANGED <<vars, dateVars, dataVars, appVars>>

\* One loop iteration of the invocation of call site c.
CallStep(c) ==
  /\ calls[c].pc = "loop"
  /\ calls[c].idx < Len(calls[c].rows)
  /\ LET row == calls[c].rows[calls[c].idx + 1]
     IN IF ReadsNull(maps[MapSlot(c)], row)
        THEN /\ calls' = [calls EXCEPT ![c].pc = "threw"]
             /\ UNCHANGED maps
        ELSE /\ maps' = [maps EXCEPT ![MapSlot(c)] = ProcessRow(@, row)]
             /\ calls' = [calls EXCEPT ![c].idx = @ + 1]
  /\ UNCHANGED <<vars, dateVars, dataVars, appVars>>

\* The return statement of the invocation of call site c.
CallReturn(c) ==
  /\ calls[c].pc = "loop"
  /\ calls[c].idx = Len(calls[c].rows)
  /\ calls' = [calls EXCEPT ![c].result = Shape(maps[MapSlot(c)]), ![c].pc = "done"]
  /\ maps' = [maps EXCEPT ![MapSlot(c)] = SetsSortedInPlace(@)]
  /\ UNCHANGED <<vars, dateVars, dataVars, appVars>>

CallsNext == \E c \in CallSites : CallStart(c) \/ CallStep(c) \/ CallReturn(c)

SpecCalls == CallsInit /\ [][CallsNext]_allVars

\* The step starts a new invocation at call site c.
Starts(c) == calls[c].pc \in {"idle", "done"} /\ calls'[c].pc = "loop"

\* C12: the aggregation has no side effects.  No step changes the rows an
\* invocation was given or a result already returned to a call site (until
\* that site calls again); an invocation starts from an empty map whatever
\* ran before; two finished calls on the same rows hold equal results.
C12_NoSideEffects ==
  [][ /\ \A c \in CallSites :
           /\ ~Starts(c) => /\ calls'[c].rows = calls[c].rows
                            /\ calls[c].pc = "done" => calls'[c].result = calls[c].result
           /\ Starts(c) => maps'[c] = << >>
      /\ \A c, d \in CallSites :
           (/\ calls'[c].pc = "done" /\ calls'[d].pc = "done"
            /\ calls'[c].rows = calls'[d].rows)
             => calls'[c].result = calls'[d].result ]_callVars

\* C12 witness: call site 1 has called again, on other rows, after a first
\* call that returned; call site 2 holds the result of a call on two rows.
C12_Witness ==
  /\ calls[1].pc = "loop" /\ calls[1].idx = 1 /\ Len(calls[1].rows) = 2
  /\ maps[1] # << >>
  /\ calls[2].pc = "done" /\ Len(calls[2].rows) = 2
  /\ calls[2].rows # calls[1].rows
  /\ Len(calls[2].result) = 1
  /\ Len(calls[2].result[1].exercises[1].sets) = 2

\* C13: however the steps of two invocations interleave, each returns what
\* the aggregation of its own rows alone returns.
C13_InterleavedCallsIndependent ==
  \A c \in CallSites :
    calls[c].pc = "done" => calls[c].result = Aggregate(calls[c].rows)

\* C13 witness: call site 1 has returned while the invocation of call site 2,
\* on rows of the same workout and exercise, is in the middle of its loop.
C13_Witness ==
  /\ calls[1].pc = "done" /\ Len(calls[1].rows) = 2
  /\ Len(calls[1].result) = 1
  /\ Len(calls[1].result[1].exercises[1].sets) = 2
  /\ calls[2].pc = "loop" /\ calls[2].idx = 1 /\ Len(calls[2].rows) = 2
  /\ maps[2] # << >>
  /\ maps[2][1].key = calls[1].result[1].id

----------------------------------------------------------------------------
(* Dates.  A Date object holds a time value: NaN (None) or an instant,     *)
(* kept as its local calendar fields.  tick counts the instants of the     *)
(* local day: tick 0 is 00:00:00.000 and the last tick is 23:59:59.999.    *)
(* Every local day has the same number of ticks (no clock change).         *)

\* Instants per local day.
TicksPerDay == 3

\* setHours(0, 0, 0, 0)
Midnight == 0

\* setHours(23, 59, 59, 999)
LastTick == TicksPerDay - 1

\* Calendar years of the dates passed in.
Years == {2024, 2025}

IsLeapYear(y) == (y % 4 = 0 /\ y % 100 # 0) \/ y % 400 = 0

DaysInMonth(y, m) ==
  IF m = 2 THEN (IF IsLeapYear(y) THEN 29 ELSE 28)
  ELSE IF m \in {4, 6, 9, 11} THEN 30 ELSE 31

ValidDates ==
  {dt \in {Some([year |-> y, month |-> m, day |-> d, tick |-> k]) :
             y \in Years, m \in 1..12, d \in 1..31, k \in 0..LastTick} :
     Val(dt).day <= DaysInMonth(Val(dt).year, Val(dt).month)}

\* new Date(NaN): a Date that is not a date.
InvalidDate == None

InputDates == ValidDates \cup {InvalidDate}

\* date.getTime(), up to an order-preserving renumbering of the instants.
Instant(date) ==
  LET f == Val(date)
  IN ((f.year * 12 + f.month) * 31 + f.day) * TicksPerDay + f.tick

\* Mutant: const startOfDay = date, the same object under another name.
NewDateAliased(heap, ref) == [heap |-> heap, ref |-> ref]

\* new Date(date): a new object holding the time value of date.
NewDate(heap, ref) == [heap |-> Append(heap, heap[ref]), ref |-> Len(heap) + 1]

\* ref.setHours(...): moves the object to the given tick of its local day; a
\* NaN time value stays NaN.
SetHours(heap, ref, tick) ==
  [heap EXCEPT ![ref] = IF @ = None THEN None ELSE Some([Val(@) EXCEPT !.tick = tick])]

\* Lines 59-64 of getWorkoutsForDate.
DayBounds(heap, ref) ==
  LET s == NewDate(heap, ref)
      h1 == SetHours(s.heap, s.ref, Midnight)
      e == NewDate(h1, ref)
      h2 == SetHours(e.heap, e.ref, LastTick)
  IN [heap |-> h2, startOfDay |-> s.ref, endOfDay |-> e.ref]

(* Text is a sequence of tokens: one token per digit, one per word.        *)

DigitChars == <<"0", "1", "2", "3", "4", "5", "6", "7", "8", "9">>

IsDigit(c) == \E n \in DOMAIN DigitChars : DigitChars[n] = c

DigitValue(c) == (CHOOSE n \in DOMAIN DigitChars : DigitChars[n] = c) - 1

\* Decimal digits of a natural number.
RECURSIVE Digits(_)
Digits(n) ==
  IF n < 10 THEN <<DigitChars[n + 1]>>
  ELSE Append(Digits(n \div 10), DigitChars[(n % 10) + 1])

RECURSIVE PadStart(_, _)
PadStart(s, width) == IF Len(s) >= width THEN s ELSE PadStart(<<"0">> \o s, width)

MonthNames ==
  <<"Jan", "Feb", "Mar", "Apr", "May", "Jun",
    "Jul", "Aug", "Sep", "Oct", "Nov", "Dec">>

\* What date-fns renders for a Date whose time value is NaN, in the releases
\* that do not raise.
InvalidDateText == "Invalid Date"

\* format(date, 'd'), format(date, 'MMM'), format(date, 'yyyy').  On a NaN
\* time value date-fns raises RangeError (None) or, in its 1.x releases,
\* renders "Invalid Date"; the sources do not pin the release.
FormatParts(date) ==
  IF date = None
  THEN {None,
        Some([day |-> <<InvalidDateText>>, month |-> InvalidDateText,
              year |-> <<InvalidDateText>>])}
  ELSE {Some([day |-> Digits(Val(date).day),
              month |-> MonthNames[Val(date).month],
              year |-> PadStart(Digits(Val(date).year), 4)])}

\* parseInt(day): the value of the leading digits, NaN (None) without any.
RECURSIVE ParseDigits(_, _)
ParseDigits(s, acc) ==
  IF s = << >> \/ ~IsDigit(Head(s)) THEN acc
  ELSE ParseDigits(Tail(s), acc * 10 + DigitValue(Head(s)))

ParseInt(s) ==
  IF s = << >> \/ ~IsDigit(Head(s)) THEN None ELSE Some(ParseDigits(s, 0))

\* Mutant: the suffix is read off the last digit alone.
SuffixByLastDigit(day) ==
  LET num == ParseInt(day)
  IN IF num = None THEN "th"
     ELSE CASE Val(num) % 10 = 1 -> "st"
            [] Val(num) % 10 = 2 -> "nd"
            [] Val(num) % 10 = 3 -> "rd"
            [] OTHER -> "th"

\* const suffix = (day: string) => ...; with num NaN the comparison is false
\* and the switch takes its default.
Suffix(day) ==
  LET num == ParseInt(day)
  IN IF num = None THEN "th"
     ELSE IF Val(num) > 3 /\ Val(num) < 21 THEN "th"
     ELSE CASE Val(num) % 10 = 1 -> "st"
            [] Val(num) % 10 = 2 -> "nd"
            [] Val(num) % 10 = 3 -> "rd"
            [] OTHER -> "th"

\* The outcomes of formatDateWithOrdinal(date).
FormatDateWithOrdinal(date) ==
  {IF p = None THEN [threw |-> TRUE, text |-> << >>]
   ELSE [threw |-> FALSE,
         text |-> Val(p).day \o <<Suffix(Val(p).day)>> \o <<" ", Val(p).month, " ">>
                    \o Val(p).year] :
     p \in FormatParts(date)}

DateInit ==
  /\ LoneCallIdle
  /\ CallsIdle
  /\ DataIdle
  /\ AppIdle
  /\ dates \in {<<d>> : d \in InputDates}
  /\ startOfDay = 0
  /\ endOfDay = 0
  /\ label = None

\* getWorkoutsForDate(dates[1]) computes the bounds of its query.
ComputeDayBounds ==
  /\ dates # << >>
  /\ startOfDay = 0
  /\ LET b == DayBounds(dates, 1)
     IN /\ dates' = b.heap
        /\ startOfDay' = b.startOfDay
        /\ endOfDay' = b.endOfDay
  /\ UNCHANGED label
  /\ UNCHANGED <<vars, callVars, dataVars, appVars>>

\* formatDateWithOrdinal(dates[1])
FormatLabel ==
  /\ dates # << >>
  /\ label = None
  /\ \E o \in FormatDateWithOrdinal(dates[1]) : label' = Some(o)
  /\ UNCHANGED <<dates, startOfDay, endOfDay>>
  /\ UNCHANGED <<vars, callVars, dataVars, appVars>>

DateNext == ComputeDayBounds \/ FormatLabel

SpecDate == DateInit /\ [][DateNext]_allVars

\* C15: for a valid input date, whatever its tick of the day, startOfDay is
\* the first and endOfDay the last instant of the input's own calendar day,
\* startOfDay <= date <= endOfDay, and the Date passed in is not modified.
C15_DayBounds ==
  [][ (startOfDay = 0 /\ startOfDay' # 0 /\ dates[1] # None) =>
        LET f == Val(dates[1])
            s == dates'[startOfDay']
            e == dates'[endOfDay']
        IN /\ s = Some([f EXCEPT !.tick = 0])
           /\ e = Some([f EXCEPT !.tick = TicksPerDay - 1])
           /\ Instant(s) <= Instant(dates[1])
           /\ Instant(dates[1]) <= Instant(e)
           /\ dates'[1] = dates[1] ]_dateVars

\* C15 witness: the bounds of a leap day, computed from a Date in the middle
\* of the day, which is still what it was.
C15_Witness ==
  /\ startOfDay # 0
  /\ dates[1] = Some([year |-> 2024, month |-> 2, day |-> 29, tick |-> 1])
  /\ dates[startOfDay] = Some([year |-> 2024, month |-> 2, day |-> 29, tick |-> 0])
  /\ Val(dates[endOfDay]).day = 29 /\ Val(dates[endOfDay]).tick > 1

\* The ordinal rule of the date format standard.
OrdinalRule(d) ==
  IF d % 100 \in {11, 12, 13} THEN "th"
  ELSE IF d % 10 = 1 THEN "st"
  ELSE IF d % 10 = 2 THEN "nd"
  ELSE IF d % 10 = 3 THEN "rd"
  ELSE "th"

\* The day of the month written without a leading zero.
DayText(d) ==
  IF d < 10 THEN <<DigitChars[d + 1]>>
  ELSE <<DigitChars[(d \div 10) + 1], DigitChars[(d % 10) + 1]>>

\* C16: for a date with day-of-month d, formatDateWithOrdinal returns
\* "{d}{suffix} {Mon} {YYYY}" with no leading zero on d and the suffix of the
\* ordinal rule; the code's shortcut agrees with that rule for every d in
\* 1..31.
C16_OrdinalLabel ==
  /\ \A d \in 1..31 : Suffix(DayText(d)) = OrdinalRule(d)
  /\ (label # None /\ dates[1] # None) =>
       LET f == Val(dates[1])
           y == f.year
       IN /\ ~Val(label).threw
          /\ Val(label).text =
               DayText(f.day) \o <<OrdinalRule(f.day), " ", MonthNames[f.month], " ">>
                 \o <<DigitChars[(y \div 1000) + 1], DigitChars[((y \div 100) % 10) + 1],
                      DigitChars[((y \div 10) % 10) + 1], DigitChars[(y % 10) + 1]>>
          /\ Head(Val(label).text) # "0"

\* C16 witness: "22nd Nov 2024" has been rendered.
C16_Witness ==
  /\ label # None
  /\ Val(label).text = <<"2", "2", "nd", " ", "Nov", " ", "2", "0", "2", "4">>
  /\ Val(dates[1]).day = 22

\* A label of the form digits, suffix, month, year.
WellFormedLabel(text) ==
  /\ text # << >>
  /\ IsDigit(Head(text))
  /\ \E i \in DOMAIN text : text[i] \in Range(MonthNames)

\* C17: given an invalid Date, the day-bounds computation and
\* formatDateWithOrdinal fall back to a valid moment: neither raises, the
\* bounds handed to the query are valid timestamps and the label is a date.
C17_InvalidDateFallback ==
  (dates # << >> /\ dates[1] = InvalidDate) =>
    /\ startOfDay # 0 => (dates[startOfDay] # None /\ dates[endOfDay] # None)
    /\ label # None => (~Val(label).threw /\ WellFormedLabel(Val(label).text))

----------------------------------------------------------------------------
(* The data functions over the workouts table.  Each call is one step: the *)
(* auth() check, then a single SQL statement.  The exercise tables are     *)
(* empty here, so every row of the join has only its workout branch.       *)

\* Most workouts ever stored.
MaxWorkouts == 2

Users == {"userA", "userB"}

\* auth(): the userId of the signed-in user, or null.
AuthResults == {None} \cup {Some(u) : u \in Users}

\* Mutant: the auth check is missing.
NeverUnauthorized(auth) == FALSE

\* if (!userId)
Unauthorized(auth) == ~Truthy(auth)

\* The startedAt values given to createWorkout and updateWorkout, and the
\* clock readings of new Date(): local midnight of two consecutive days.
StartInstants ==
  {Some([year |-> 2024, month |-> 12, day |-> 31, tick |-> Midnight]),
   Some([year |-> 2025, month |-> 1, day |-> 1, tick |-> Midnight])}

\* The dates getWorkoutsForDate is asked for.
QueryDates ==
  {Some([year |-> 2024, month |-> 12, day |-> 31, tick |-> LastTick]),
   Some([year |-> 2025, month |-> 1, day |-> 1, tick |-> Midnight])}

\* The ids asked for: every stored id and one that is never stored.
WorkoutIds == 1..(MaxWorkouts + 1)

\* throw new Error(msg); dbAccess tells whether a statement ran before it.
Threw(msg, dbAccess) == [threw |-> Some(msg), value |-> << >>, dbAccess |-> dbAccess]

\* return value, after the statement ran.
Returned(value) == [threw |-> None, value |-> value, dbAccess |-> TRUE]

\* Mutant: the userId predicate is missing from the where clause.
OwnedByAnyone(w, auth) == TRUE

\* eq(workouts.userId, userId)
OwnedBy(w, auth) == auth = Some(w.userId)

\* Mutant: gt(workouts.startedAt, startOfDay)
Gt(a, b) == Instant(a) > Instant(b)

\* gte(workouts.startedAt, startOfDay)
Gte(a, b) == Instant(a) >= Instant(b)

\* lt(workouts.startedAt, endOfDay)
Lt(a, b) == Instant(a) < Instant(b)

\* orderBy(desc(workouts.startedAt)): every order of the selected rows with
\* startedAt non-increasing (SQL leaves the order of ties open).
DescOrders(selected) ==
  {s \in [1..Cardinality(selected) -> selected] :
     /\ Range(s) = selected
     /\ \A i, j \in DOMAIN s : i < j => Instant(s[i].startedAt) >= Instant(s[j].startedAt)}

\* The join rows of the selected workouts: the selected columns of the
\* workout, every left-joined branch null.
WorkoutRows(order) ==
  [i \in DOMAIN order |->
     [workout |-> Some([id |-> order[i].id, name |-> order[i].name,
                        startedAt |-> order[i].startedAt,
                        completedAt |-> order[i].completedAt]),
      workoutExercise |-> None, exercise |-> None, set |-> None]]

\* getWorkoutsForDate(date) for the caller auth: its possible outcomes.
GetWorkoutsForDate(table, auth, date) ==
  IF Unauthorized(auth) THEN {Threw("Unauthorized", FALSE)}
  ELSE LET b == DayBounds(<<date>>, 1)
           selected == {w \in Range(table) :
                          /\ OwnedBy(w, auth)
                          /\ Gte(w.startedAt, b.heap[b.startOfDay])
                          /\ Lt(w.startedAt, b.heap[b.endOfDay])}
       IN {Returned(Aggregate(WorkoutRows(order))) : order \in DescOrders(selected)}

\* getAllWorkouts()
GetAllWorkouts(table, auth) ==
  IF Unauthorized(auth) THEN {Threw("Unauthorized", FALSE)}
  ELSE {Returned(order) : order \in DescOrders({w \in Range(table) : OwnedBy(w, auth)})}

\* getWorkout(workoutId): the row, or undefined (None) when none matches.
GetWorkout(table, auth, workoutId) ==
  IF Unauthorized(auth) THEN {Threw("Unauthorized", FALSE)}
  ELSE LET selected == {w \in Range(table) : w.id = workoutId /\ OwnedBy(w, auth)}
       IN IF selected = {} THEN {Returned(None)}
          ELSE {Returned(Some(w)) : w \in selected}

\* data.name || null
OrNull(name) == IF name = None \/ name = Some("") THEN None ELSE name

\* data.startedAt || new Date()
OrNow(startedAt, now) == IF startedAt = None THEN now ELSE startedAt

\* createWorkout(data): the table and the outcome.  id is a serial column,
\* user_id is NOT NULL, completed_at defaults to null.
CreateWorkout(table, auth, data, now) ==
  IF Unauthorized(auth) THEN [table |-> table, out |-> Threw("Unauthorized", FALSE)]
  ELSE IF auth = None
  THEN [table |-> table, out |-> Threw("null value in column user_id", TRUE)]
  ELSE LET workout == [id |-> Len(table) + 1,
                       userId |-> Val(auth),
                       name |-> OrNull(data.name),
                       startedAt |-> OrNow(data.startedAt, now),
                       completedAt |-> None]
       IN [table |-> Append(table, workout), out |-> Returned(workout)]

\* Mutant: where(eq(workouts.id, workoutId)) alone.
UpdateTargetsById(table, auth, workoutId) ==
  {i \in DOMAIN table : table[i].id = workoutId}

\* where(and(eq(workouts.id, workoutId), eq(workouts.userId, userId)))
UpdateTargets(table, auth, workoutId) ==
  {i \in DOMAIN table : table[i].id = workoutId /\ OwnedBy(table[i], auth)}

\* .set(data): the columns named in data take its values.
SetColumns(w, data) ==
  [k \in DOMAIN w |-> IF k \in DOMAIN data THEN data[k] ELSE w[k]]

\* updateWorkout(workoutId, data): the table and the outcome.
UpdateWorkout(table, auth, workoutId, data) ==
  IF Unauthorized(auth) THEN [table |-> table, out |-> Threw("Unauthorized", FALSE)]
  ELSE LET targets == UpdateTargets(table, auth, workoutId)
           updated == [i \in DOMAIN table |->
                         IF i \in targets THEN SetColumns(table[i], data) ELSE table[i]]
       IN IF targets = {}
          THEN [table |-> updated, out |-> Threw("Workout not found", TRUE)]
          ELSE [table |-> updated,
                out |-> Returned(updated[CHOOSE i \in targets : TRUE])]

\* The data objects passed to createWorkout (None: the key is absent).
CreateInputs ==
  [name : {None, Some(""), Some("Push")}, startedAt : {None} \cup StartInstants]

\* The data objects passed to updateWorkout.
UpdateInputs ==
  {[name |-> n] : n \in {None, Some("Push")}}
    \cup {[startedAt |-> s] : s \in StartInstants}
    \cup {[name |-> None, startedAt |-> s] : s \in StartInstants}

\* What the caller of the latest call saw.
Call(fn, auth, arg, out) ==
  Some([fn |-> fn, auth |-> auth, arg |-> arg,
        threw |-> out.threw, value |-> out.value, dbAccess |-> out.dbAccess])

DataInit == LoneCallIdle /\ CallsIdle /\ DatesIdle /\ DataIdle /\ AppIdle

CallGetWorkoutsForDate ==
  \E auth \in AuthResults, date \in QueryDates :
    \E out \in GetWorkoutsForDate(db, auth, date) :
      /\ lastCall' = Call("getWorkoutsForDate", auth, date, out)
      /\ UNCHANGED db
      /\ UNCHANGED <<vars, callVars, dateVars, appVars>>

CallGetAllWorkouts ==
  \E auth \in AuthResults :
    \E out \in GetAllWorkouts(db, auth) :
      /\ lastCall' = Call("getAllWorkouts", auth, << >>, out)
      /\ UNCHANGED db
      /\ UNCHANGED <<vars, callVars, dateVars, appVars>>

CallGetWorkout ==
  \E auth \in AuthResults, workoutId \in WorkoutIds :
    \E out \in GetWorkout(db, auth, workoutId) :
      /\ lastCall' = Call("getWorkout", auth, workoutId, out)
      /\ UNCHANGED db
      /\ UNCHANGED <<vars, callVars, dateVars, appVars>>

CallCreateWorkout ==
  \E auth \in AuthResults, data \in CreateInputs, now \in StartInstants :
    /\ Unauthorized(auth) \/ Len(db) < MaxWorkouts
    /\ LET r == CreateWorkout(db, auth, data, now)
       IN /\ db' = r.table
          /\ lastCall' = Call("createWorkout", auth, << >>, r.out)
    /\ UNCHANGED <<vars, callVars, dateVars, appVars>>

CallUpdateWorkout ==
  \E auth \in AuthResults, workoutId \in WorkoutIds, data \in UpdateInputs :
    /\ LET r == UpdateWorkout(db, auth, workoutId, data)
       IN /\ db' = r.table
          /\ lastCall' = Call("updateWorkout", auth, workoutId, r.out)
    /\ UNCHANGED <<vars, callVars, dateVars, appVars>>

DataNext ==
  \/ CallGetWorkoutsForDate
  \/ CallGetAllWorkouts
  \/ CallGetWorkout
  \/ CallCreateWorkout
  \/ CallUpdateWorkout

SpecData == DataInit /\ [][DataNext]_allVars

\* Local midnight at the start of the day of date.
StartOfDay(date) == Some([Val(date) EXCEPT !.tick = 0])

\* The same time of day on the next calendar day.
NextDay(date) ==
  LET f == Val(date)
  IN IF f.day < DaysInMonth(f.year, f.month) THEN Some([f EXCEPT !.day = @ + 1])
     ELSE IF f.month < 12 THEN Some([f EXCEPT !.day = 1, !.month = @ + 1])
     ELSE Some([f EXCEPT !.day = 1, !.month = 1, !.year = @ + 1])

ReturnedIds(value) == {value[i].id : i \in DOMAIN value}

\* C14: getWorkoutsForDate(D) includes a workout of the caller started at
\* local midnight of D and excludes one started at local midnight of the day
\* after D.
C14_DayBoundaries ==
  (/\ lastCall # None
   /\ Val(lastCall).fn = "getWorkoutsForDate"
   /\ Val(lastCall).threw = None) =>
    LET c == Val(lastCall)
    IN \A w \in Range(db) :
         Some(w.userId) = c.auth =>
           /\ w.startedAt = StartOfDay(c.arg) => w.id \in ReturnedIds(c.value)
           /\ w.startedAt = StartOfDay(NextDay(c.arg)) => w.id \notin ReturnedIds(c.value)

\* C14 witness: the caller owns a workout started at midnight of 31 Dec 2024
\* and one started at midnight of 1 Jan 2025, and has asked for 31 Dec.
C14_Witness ==
  /\ lastCall # None
  /\ Val(lastCall).fn = "getWorkoutsForDate"
  /\ Val(lastCall).auth = Some("userA")
  /\ Val(Val(lastCall).arg).day = 31
  /\ Len(db) = 2
  /\ db[1].userId = "userA" /\ Val(db[1].startedAt).day = 31
  /\ db[2].userId = "userA" /\ Val(db[2].startedAt).day = 1
  /\ ReturnedIds(Val(lastCall).value) = {1}

\* C18: a data function called without a signed-in user throws
\* 'Unauthorized' before any statement runs: the stored workouts are
\* unchanged and nothing is returned.
C18_UnauthorizedRejected ==
  [][ Val(lastCall').auth = None =>
        /\ Val(lastCall').threw = Some("Unauthorized")
        /\ ~Val(lastCall').dbAccess
        /\ Val(lastCall').value = << >>
        /\ db' = db ]_dataVars

\* C18 witness: updateWorkout on a stored id, without a signed-in user, after
\* each of the five functions could have been called.
C18_Witness ==
  /\ lastCall # None
  /\ Val(lastCall).auth = None
  /\ Val(lastCall).fn = "updateWorkout"
  /\ Val(lastCall).threw = Some("Unauthorized")
  /\ Len(db) = 2
  /\ Val(lastCall).arg = db[2].id

\* The rows of user u.
OwnRows(table, u) == SelectSeq(table, LAMBDA w : w.userId = u)

\* C19: what the three read functions return to user A holds only workouts
\* of A and is what they return on the table without the rows of the other
\* users.
C19_UserIsolation ==
  (/\ lastCall # None
   /\ Val(lastCall).auth # None
   /\ Val(lastCall).threw = None) =>
    LET c == Val(lastCall)
        own == OwnRows(db, Val(c.auth))
    IN /\ c.fn = "getWorkoutsForDate" =>
            /\ ReturnedIds(c.value) \subseteq ReturnedIds(own)
            /\ Returned(c.value) \in GetWorkoutsForDate(own, c.auth, c.arg)
       /\ c.fn = "getAllWorkouts" =>
            /\ \A i \in DOMAIN c.value : c.value[i].userId = Val(c.auth)
            /\ Returned(c.value) \in GetAllWorkouts(own, c.auth)
       /\ c.fn = "getWorkout" =>
            /\ c.value # None => Val(c.value).userId = Val(c.auth)
            /\ Returned(c.value) \in GetWorkout(own, c.auth, c.arg)

\* C19 witness: A and B each own a workout started at the same instant; A
\* asks for that day and gets one workout.
C19_Witness ==
  /\ lastCall # None
  /\ Val(lastCall).fn = "getWorkoutsForDate"
  /\ Val(lastCall).auth = Some("userA")
  /\ Len(db) = 2
  /\ db[1].userId = "userB" /\ db[2].userId = "userA"
  /\ db[1].startedAt = db[2].startedAt
  /\ ReturnedIds(Val(lastCall).value) = {2}

----------------------------------------------------------------------------
(* Join records and exercise entries.                                      *)

\* The ids of the join records on the rows of workout w that carry an exercise.
InputJoinRecordIds(w) ==
  {rows[i].workoutExercise[1].id :
     i \in {k \in RowsOfWorkout(w) : rows[k].exercise # None /\ rows[k].workoutExercise # None}}

\* C30 as stated: every join record of a workout has an exercise entry of its
\* own, so an output workout has as many exercises as its rows name join
\* records.
C30_EntryPerJoinRecord ==
  pc = "done" =>
    \A p \in DOMAIN result :
      Len(result[p].exercises) = Cardinality(InputJoinRecordIds(result[p].id))

\* C30 amended: entries are per exercise id.  Join records of one workout that
\* link the same exercise share a single entry, named as on the first row of
\* the exercise, whose set list holds the sets of all of them.
C30_JoinRecordsShareEntry ==
  pc = "done" =>
    \A p \in DOMAIN result :
      LET w == result[p].id
      IN /\ Len(result[p].exercises) <= Cardinality(InputJoinRecordIds(w))
         /\ \A e \in InputExerciseIds(w) :
              Cardinality({j \in DOMAIN result[p].exercises :
                             /\ result[p].exercises[j].name = FirstName(w, e)
                             /\ SeqToBag(result[p].exercises[j].sets)
                                  = SeqToBag(InputSets(w, e))}) = 1

\* C30 witness: workout 1 links exercise 101 through the join records 11 and
\* 12, each with a set; the result has one exercise holding both sets.
C30_Witness ==
  /\ pc = "done"
  /\ Len(rows) = 2
  /\ RowsOfExercise(1, 101) = {1, 2}
  /\ rows[1].workoutExercise[1].id = 11 /\ rows[1].set # None
  /\ rows[2].workoutExercise[1].id = 12 /\ rows[2].set # None
  /\ Len(result) = 1
  /\ Len(result[1].exercises) = 1
  /\ Len(result[1].exercises[1].sets) = 2

----------------------------------------------------------------------------
(* The per-day ranges of getWorkoutsForDate.                               *)

\* A workout of userA started at the instant at.
WorkoutStartedAt(at) ==
  [id |-> 1, userId |-> "userA", name |-> None, startedAt |-> at, completedAt |-> None]

\* getWorkoutsForDate(day) returns to userA the workout started at the instant at.
ReturnedOn(at, day) ==
  \E out \in GetWorkoutsForDate(<<WorkoutStartedAt(at)>>, Some("userA"), day) :
    out.value # << >>

\* C27: a workout is returned for exactly one calendar day, the local day
\* that contains its startedAt: the instant of dates[1] lies in the range
\* [startOfDay, endOfDay) computed for its own day and is returned for that
\* day, and it is not returned for the next day, nor is the first instant of
\* the next day returned for this one.
C27_DayRangesPartition ==
  (startOfDay # 0 /\ dates[1] # None) =>
    /\ Gte(dates[1], dates[startOfDay])
    /\ Lt(dates[1], dates[endOfDay])
    /\ ReturnedOn(dates[1], dates[1])
    /\ ~ReturnedOn(dates[1], NextDay(dates[1]))
    /\ ~ReturnedOn(StartOfDay(NextDay(dates[1])), dates[1])

----------------------------------------------------------------------------
(* The server actions createWorkoutAction and updateWorkoutAction          *)
(* (src/src/app/dashboard/workout/actions.ts).  One action runs at a time; *)
(* its steps are the schema parse, the data-layer call, revalidatePath,    *)
(* and the return or the catch.  db is the workouts table, each row with   *)
(* its created_at.                                                          *)

\* Most workouts stored through the actions.
MaxStored == 1

(* JavaScript values of the input fields. *)

Undefined == <<"undefined">>

Null == <<"null">>

Str(s) == <<"string", s>>

Num(n) == <<"number", n>>

IsString(v) == v[1] = "string"

IsNumber(v) == v[1] = "number"

\* z.string().optional()
ZOptionalString(v) == v = Undefined \/ IsString(v)

\* z.string().nullable().optional()
ZNullableOptionalString(v) == v = Null \/ ZOptionalString(v)

\* The fields createWorkoutSchema.parse(input) rejects.
CreateIssues(input) == {k \in {"name", "startedAt"} : ~ZOptionalString(input[k])}

\* The fields updateWorkoutSchema.parse(input) rejects.
UpdateIssues(input) ==
  {k \in {"id"} : ~IsNumber(input[k])}
    \cup {k \in {"name", "completedAt"} : ~ZNullableOptionalString(input[k])}
    \cup {k \in {"startedAt"} : ~ZOptionalString(input[k])}

\* Truthiness of a validated field: a non-empty string.
TruthyValue(v) == IsString(v) /\ v[2] # ""

\* new Date(string) for the strings the forms send (local date and time to
\* the minute); any other text gives an invalid Date.
DateOfString(s) ==
  CASE s = "2024-12-31T00:00" ->
         Some([year |-> 2024, month |-> 12, day |-> 31, tick |-> Midnight])
    [] s = "2025-01-01T00:00" ->
         Some([year |-> 2025, month |-> 1, day |-> 1, tick |-> Midnight])
    [] OTHER -> InvalidDate

\* new Date(): what the clock shows when an action runs.
ClockReadings == {Some([year |-> 2025, month |-> 1, day |-> 1, tick |-> Midnight])}

\* A thrown ZodError with its issues.
ZodError(issues) == [zod |-> TRUE, message |-> "ZodError", issues |-> issues]

\* Any other thrown Error.
PlainError(message) == [zod |-> FALSE, message |-> message, issues |-> {}]

\* created_at defaultNow(): the row just inserted gets the clock reading.
WithCreatedAt(row, now) ==
  [k \in (DOMAIN row) \cup {"createdAt"} |-> IF k = "createdAt" THEN now ELSE row[k]]

\* createWorkout({ name: validated.name, startedAt }) as called by the
\* action: startedAt is always a Date object; an invalid one passes the ||
\* of the data layer (objects are truthy) and is rejected when the statement
\* is built (Date.prototype.toISOString raises RangeError).
ActionCreateWorkout(table, auth, name, startedAt, now) ==
  IF Unauthorized(auth) \/ startedAt # InvalidDate
  THEN LET r == CreateWorkout(table, auth,
                              [name |-> IF IsString(name) THEN Some(name[2]) ELSE None,
                               startedAt |-> startedAt], now)
       IN IF r.out.threw # None THEN r
          ELSE [table |-> [r.table EXCEPT ![Len(r.table)] = WithCreatedAt(@, now)],
                out |-> Returned(WithCreatedAt(r.out.value, now))]
  ELSE [table |-> table, out |-> Threw("Invalid time value", FALSE)]

\* Mutant: if (data.name) instead of if (data.name !== undefined).
NameSuppliedIfTruthy(v) == TruthyValue(v)

\* if (data.name !== undefined)
NameSupplied(v) == v # Undefined

\* The updateData object built in lines 62-78: a column is present only when
\* its test passes.
UpdateData(validated) ==
  LET keys == {k \in {"name"} : NameSupplied(validated.name)}
                \cup {k \in {"startedAt"} : TruthyValue(validated.startedAt)}
                \cup {k \in {"completedAt"} : validated.completedAt # Undefined}
  IN [k \in keys |->
        IF k = "name"
        THEN (IF IsString(validated.name) THEN Some(validated.name[2]) ELSE None)
        ELSE IF k = "startedAt" THEN DateOfString(validated.startedAt[2])
        ELSE IF TruthyValue(validated.completedAt)
             THEN DateOfString(validated.completedAt[2])
             ELSE None]

\* The Date objects of updateData that are invalid.
InvalidColumns(validated, data) ==
  {k \in DOMAIN data :
     /\ k \in {"startedAt", "completedAt"}
     /\ TruthyValue(validated[k])
     /\ data[k] = InvalidDate}

\* updateWorkout(id, updateData) as called by the action: after the auth
\* check, .set() raises on an object without columns and the statement
\* cannot be built from an invalid Date.
ActionUpdateWorkout(table, auth, validated) ==
  LET data == UpdateData(validated)
  IN IF Unauthorized(auth) THEN [table |-> table, out |-> Threw("Unauthorized", FALSE)]
     ELSE IF DOMAIN data = {}
     THEN [table |-> table, out |-> Threw("No values to set", FALSE)]
     ELSE IF InvalidColumns(validated, data) # {}
     THEN [table |-> table, out |-> Threw("Invalid time value", FALSE)]
     ELSE UpdateWorkout(table, auth, validated.id[2], data)

\* Mutant: only the dashboard is revalidated.
DashboardOnly(fn, validated) == << <<"/dashboard">> >>

\* revalidatePath calls of a successful action.
PathsToRevalidate(fn, validated) ==
  IF fn = "createWorkoutAction" THEN << <<"/dashboard">> >>
  ELSE << <<"/dashboard">>, <<"/dashboard/workout/", validated.id[2]>> >>

\* Mutant: only a ZodError is caught, any other error leaves the action.
CatchZodOnly(error) ==
  IF error.zod
  THEN [threw |-> FALSE, success |-> FALSE, error |-> "Validation failed",
        issues |-> error.issues, workout |-> None]
  ELSE [threw |-> TRUE, success |-> FALSE, error |-> error.message,
        issues |-> {}, workout |-> None]

\* The catch block: what the action returns for a thrown error.
CatchResult(error) ==
  IF error.zod
  THEN [threw |-> FALSE, success |-> FALSE, error |-> "Validation failed",
        issues |-> error.issues, workout |-> None]
  ELSE [threw |-> FALSE, success |-> FALSE, error |-> error.message,
        issues |-> {}, workout |-> None]

\* return { success: true, workout }
SuccessResult(workout) ==
  [threw |-> FALSE, success |-> TRUE, error |-> "", issues |-> {},
   workout |-> Some(workout)]

\* The inputs sent to createWorkoutAction.
CreateActionInputs ==
  [name : {Undefined, Str("Push"), Num(5)},
   startedAt : {Undefined, Str(""), Str("2024-12-31T00:00"), Str("tomorrow")}]

\* The ids named in the inputs of updateWorkoutAction: the first stored id
\* and one that is never stored.
ActionIds == {1, MaxStored + 1}

\* The inputs sent to updateWorkoutAction.
UpdateActionInputs ==
  [id : {Num(i) : i \in ActionIds},
   name : {Undefined, Null, Str("Push")},
   startedAt : {Undefined, Str(""), Str("2024-12-31T00:00"), Str("tomorrow")},
   completedAt : {Undefined, Null, Str(""), Str("2024-12-31T00:00")}]
    \cup {[id |-> Str("1"), name |-> Null, startedAt |-> Undefined, completedAt |-> Num(0)]}

ActionInit ==
  /\ LoneCallIdle
  /\ CallsIdle
  /\ DatesIdle
  /\ DataIdle
  /\ AppIdle

\* An action is invoked and parses its input (lines 22-23, 57-58).
ActionStart ==
  /\ action = << >>
  /\ \E fn \in {"createWorkoutAction", "updateWorkoutAction"}, auth \in AuthResults :
       /\ fn = "createWorkoutAction" => Len(db) < MaxStored
       /\ \E input \in IF fn = "createWorkoutAction" THEN CreateActionInputs
                    ELSE UpdateActionInputs :
         LET issues == IF fn = "createWorkoutAction" THEN CreateIssues(input)
                       ELSE UpdateIssues(input)
         IN action' = Some([fn |-> fn, auth |-> auth, input |-> input,
                            pc |-> IF issues = {} THEN "validated" ELSE "failed",
                            error |-> IF issues = {} THEN None ELSE Some(ZodError(issues)),
                            workout |-> None, revalidated |-> << >>, result |-> None])
  /\ UNCHANGED <<db, lastCall, page, nav, form>>
  /\ UNCHANGED <<vars, callVars, dateVars>>

\* The data-layer call (lines 25-32, 59-80).
ActionMutate ==
  /\ action # << >>
  /\ Val(action).pc = "validated"
  /\ \E now \in ClockReadings :
       LET a == Val(action)
           r == IF a.fn = "createWorkoutAction"
                THEN ActionCreateWorkout(db, a.auth, a.input.name,
                                         IF TruthyValue(a.input.startedAt)
                                         THEN DateOfString(a.input.startedAt[2])
                                         ELSE now,
                                         now)
                ELSE ActionUpdateWorkout(db, a.auth, a.input)
       IN /\ db' = r.table
          /\ action' = IF r.out.threw = None
                       THEN Some([a EXCEPT !.pc = "mutated", !.workout = Some(r.out.value)])
                       ELSE Some([a EXCEPT !.pc = "failed",
                                           !.error = Some(PlainError(Val(r.out.threw)))])
  /\ UNCHANGED <<lastCall, page, nav, form>>
  /\ UNCHANGED <<vars, callVars, dateVars>>

\* revalidatePath (lines 34, 82-83).
ActionRevalidate ==
  /\ action # << >>
  /\ Val(action).pc = "mutated"
  /\ action' = Some([Val(action) EXCEPT
                       !.pc = "revalidated",
                       !.revalidated = PathsToRevalidate(Val(action).fn, Val(action).input)])
  /\ UNCHANGED <<db, lastCall, page, nav, form>>
  /\ UNCHANGED <<vars, callVars, dateVars>>

\* return { success: true, workout } (lines 36, 85).
ActionReturn ==
  /\ action # << >>
  /\ Val(action).pc = "revalidated"
  /\ action' = Some([Val(action) EXCEPT
                       !.pc = "returned",
                       !.result = Some(SuccessResult(Val(Val(action).workout)))])
  /\ UNCHANGED <<db, lastCall, page, nav, form>>
  /\ UNCHANGED <<vars, callVars, dateVars>>

\* The catch block (lines 37-51, 86-99).
ActionCatch ==
  /\ action # << >>
  /\ Val(action).pc = "failed"
  /\ LET r == CatchResult(Val(Val(action).error))
     IN action' = Some([Val(action) EXCEPT
                          !.pc = IF r.threw THEN "threw" ELSE "returned",
                          !.result = Some(r)])
  /\ UNCHANGED <<db, lastCall, page, nav, form>>
  /\ UNCHANGED <<vars, callVars, dateVars>>

\* The caller has the result; the invocation is over.
ActionEnd ==
  /\ action # << >>
  /\ Val(action).pc = "returned"
  /\ action' = << >>
  /\ UNCHANGED <<db, lastCall, page, nav, form>>
  /\ UNCHANGED <<vars, callVars, dateVars>>

ActionNext ==
  \/ ActionStart
  \/ ActionMutate
  \/ ActionRevalidate
  \/ ActionReturn
  \/ ActionCatch
  \/ ActionEnd

SpecActions == ActionInit /\ [][ActionNext]_allVars

\* The messages of the errors the data layer can raise in an action.
DataLayerMessages ==
  {"Unauthorized", "Workout not found", "No values to set", "Invalid time value"}

\* The fields the schema of the action rejects.
IssuesOf(a) ==
  IF a.fn = "createWorkoutAction" THEN CreateIssues(a.input) ELSE UpdateIssues(a.input)

\* C21: the actions never throw.  Every run ends in a returned result, either
\* success with the stored workout or failure with an error: 'Validation
\* failed' with the issues when the schema rejects the input, else the
\* message of the error raised ('Unauthorized' without a signed-in user).  A
\* failed run has not created or changed a workout: the table changes only in
\* the step whose data-layer call succeeds, and a failed run has none.
C21_ActionsNeverThrow ==
  [][ /\ db' # db => (action' # << >> /\ Val(action').pc = "mutated"
                        /\ Val(action').workout # None)
      /\ action' # << >> =>
           LET a == Val(action')
           IN /\ a.pc # "threw"
              /\ a.pc = "returned" =>
                   LET r == Val(a.result)
                   IN /\ ~r.threw
                      /\ r.success =>
                           /\ r.workout # None
                           /\ \E i \in DOMAIN db' : db'[i] = Val(r.workout)
                      /\ ~r.success =>
                           /\ r.workout = None
                           /\ a.workout = None
                           /\ db' = db
                           /\ IssuesOf(a) # {} =>
                                (r.error = "Validation failed" /\ r.issues = IssuesOf(a))
                           /\ IssuesOf(a) = {} =>
                                /\ r.error \in DataLayerMessages
                                /\ a.auth = None => r.error = "Unauthorized" ]_<<db, action>>

\* C21 witness: updateWorkoutAction of userA on the workout of userB has
\* returned the failure 'Workout not found'.
C21_Witness ==
  /\ action # << >>
  /\ Val(action).pc = "returned"
  /\ Val(action).fn = "updateWorkoutAction"
  /\ Val(action).auth = Some("userA")
  /\ Val(action).input.id = Num(1)
  /\ Len(db) = 1 /\ db[1].userId = "userB"
  /\ ~Val(Val(action).result).success
  /\ Val(Val(action).result).error = "Workout not found"

\* C22: revalidatePath is called only after the data-layer call has
\* succeeded and before the success result is returned; a run that fails
\* revalidates nothing; a successful updateWorkoutAction revalidates
\* /dashboard and /dashboard/workout/{id}.
C22_RevalidateAfterMutation ==
  [][ action' # << >> =>
        LET a == Val(action')
        IN /\ (a.revalidated # << >> /\ (action = << >> \/ Val(action).revalidated = << >>)) =>
                /\ action # << >>
                /\ Val(action).pc = "mutated"
                /\ Val(action).workout # None
                /\ a.result = None
                /\ db' = db
           /\ a.pc \in {"validated", "failed", "mutated"} => a.revalidated = << >>
           /\ (a.pc = "returned" /\ ~Val(a.result).success) => a.revalidated = << >>
           /\ (a.pc = "returned" /\ Val(a.result).success) =>
                a.revalidated =
                  IF a.fn = "createWorkoutAction" THEN << <<"/dashboard">> >>
                  ELSE << <<"/dashboard">>, <<"/dashboard/workout/", a.input.id[2]>> >>
    ]_<<db, action>>

\* C22 witness: a successful updateWorkoutAction on workout 1 has returned
\* after revalidating both paths.
C22_Witness ==
  /\ action # << >>
  /\ Val(action).pc = "returned"
  /\ Val(action).fn = "updateWorkoutAction"
  /\ Val(Val(action).result).success
  /\ Val(action).revalidated = << <<"/dashboard">>, <<"/dashboard/workout/", 1>> >>

\* C25: a successful updateWorkoutAction changes exactly the fields
\* supplied, on the workout named by id: name when it is not undefined (null
\* clears it), startedAt when a non-empty string is given, completedAt when
\* it is not undefined (null or the empty string clears it); every other
\* field, and id, userId and createdAt, keep their values, as does every
\* other workout; a failed one changes nothing.
C25_ExactlySuppliedFields ==
  [][ (/\ action # << >>
       /\ Val(action).pc = "validated"
       /\ Val(action).fn = "updateWorkoutAction") =>
        LET in == Val(action).input
            ok == Val(action').pc = "mutated"
        IN /\ Len(db') = Len(db)
           /\ \A i \in DOMAIN db :
                IF ok /\ db[i].id = in.id[2]
                THEN /\ db'[i].name =
                          (IF in.name = Undefined THEN db[i].name
                           ELSE IF in.name = Null THEN None ELSE Some(in.name[2]))
                     /\ db'[i].startedAt =
                          (IF in.startedAt = Undefined \/ in.startedAt = Str("")
                           THEN db[i].startedAt
                           ELSE DateOfString(in.startedAt[2]))
                     /\ db'[i].completedAt =
                          (IF in.completedAt = Undefined THEN db[i].completedAt
                           ELSE IF in.completedAt = Null \/ in.completedAt = Str("") THEN None
                           ELSE DateOfString(in.completedAt[2]))
                     /\ db'[i].id = db[i].id
                     /\ db'[i].userId = db[i].userId
                     /\ db'[i].createdAt = db[i].createdAt
                ELSE db'[i] = db[i] ]_<<db, action>>

\* C25 witness: the owner has cleared the name and set completedAt, leaving
\* startedAt out (an empty string): the stored workout has no name, the
\* completedAt given and the startedAt it was created with.
C25_Witness ==
  /\ action # << >>
  /\ Val(action).pc = "mutated"
  /\ Val(action).fn = "updateWorkoutAction"
  /\ Val(action).input.name = Null
  /\ Val(action).input.startedAt = Str("")
  /\ Val(action).input.completedAt = Str("2024-12-31T00:00")
  /\ Len(db) = 1
  /\ db[1].name = None
  /\ db[1].completedAt = DateOfString("2024-12-31T00:00")
  /\ db[1].startedAt = DateOfString("2024-12-31T00:00")
  /\ db[1].createdAt = DateOfString("2025-01-01T00:00")

\* C29: every stored workout has completedAt null or not earlier than its
\* startedAt, so the duration shown (completedAt - startedAt) is never
\* negative.
C29_CompletedNotBeforeStarted ==
  \A i \in DOMAIN db :
    db[i].completedAt # None => Instant(db[i].completedAt) - Instant(db[i].startedAt) >= 0

----------------------------------------------------------------------------
(* Date navigation of the dashboard: CalendarSelector                      *)
(* (src/src/components/dashboard/calendar-selector.tsx) writes the `date`  *)
(* URL parameter, DashboardPage (src/unnamed/part_002) reads it.  A URL    *)
(* query is a sequence of key/value pairs, every text a token sequence.    *)

\* The local time zones: local time minus UTC, in ticks (less than a day).
TimeZoneOffsets == {-1, 0, 1}

\* The first instant of the month before / after month m of year y.
PreviousMonth(y, m) == IF m = 1 THEN [year |-> y - 1, month |-> 12] ELSE [year |-> y, month |-> m - 1]

FollowingMonth(y, m) == IF m = 12 THEN [year |-> y + 1, month |-> 1] ELSE [year |-> y, month |-> m + 1]

\* Date arithmetic on the day field: a day below 1 or beyond the month's end
\* rolls into the neighbouring months.
RECURSIVE RollDays(_, _, _, _)
RollDays(y, m, d, tick) ==
  IF d < 1
  THEN LET pm == PreviousMonth(y, m)
       IN RollDays(pm.year, pm.month, d + DaysInMonth(pm.year, pm.month), tick)
  ELSE IF d > DaysInMonth(y, m)
  THEN LET fm == FollowingMonth(y, m)
       IN RollDays(fm.year, fm.month, d - DaysInMonth(y, m), tick)
  ELSE Some([year |-> y, month |-> m, day |-> d, tick |-> tick])

\* new Date(year, monthIndex, day): local midnight; a year from 0 to 99 means
\* 1900 + year, month and day out of range roll over.
MakeLocalDate(year, monthIndex, day) ==
  LET y0 == IF year >= 0 /\ year <= 99 THEN 1900 + year ELSE year
  IN RollDays(y0 + (monthIndex \div 12), (monthIndex % 12) + 1, day, Midnight)

\* The instant k ticks after date (k may be negative, less than a day).
AddTicks(date, k) ==
  LET f == Val(date)
      sum == f.tick + k
  IN IF sum < 0 THEN RollDays(f.year, f.month, f.day - 1, sum + TicksPerDay)
     ELSE IF sum >= TicksPerDay THEN RollDays(f.year, f.month, f.day + 1, sum - TicksPerDay)
     ELSE Some([f EXCEPT !.tick = sum])

\* /^\d{4}-\d{2}-\d{2}$/.test(s)
MatchesDatePattern(s) ==
  /\ Len(s) = 10
  /\ \A i \in {1, 2, 3, 4, 6, 7, 9, 10} : IsDigit(s[i])
  /\ s[5] = "-"
  /\ s[8] = "-"

\* dateParam.split("-").map(Number) of a string that matches the pattern.
DateParts(s) ==
  [year |-> ParseDigits(SubSeq(s, 1, 4), 0),
   month |-> ParseDigits(SubSeq(s, 6, 7), 0),
   day |-> ParseDigits(SubSeq(s, 9, 10), 0)]

\* The values of the key in the query, in order.
RECURSIVE ParamValues(_, _)
ParamValues(params, key) ==
  IF params = << >> THEN << >>
  ELSE IF Head(params).key = key
       THEN <<Head(params).value>> \o ParamValues(Tail(params), key)
       ELSE ParamValues(Tail(params), key)

\* The pairs of the other keys, in order.
RECURSIVE ParamsWithout(_, _)
ParamsWithout(params, key) ==
  IF params = << >> THEN << >>
  ELSE IF Head(params).key = key THEN ParamsWithout(Tail(params), key)
       ELSE <<Head(params)>> \o ParamsWithout(Tail(params), key)

\* URLSearchParams.get: the first value of the key, or null.
ParamsGet(params, key) ==
  IF ParamValues(params, key) = << >> THEN None ELSE Some(Head(ParamValues(params, key)))

\* URLSearchParams.set: the first pair of the key takes the value and the
\* other pairs of the key are removed; a new key is appended.
RECURSIVE ParamsSet(_, _, _, _)
ParamsSet(params, key, value, found) ==
  IF params = << >>
  THEN (IF found THEN << >> ELSE <<[key |-> key, value |-> value]>>)
  ELSE IF Head(params).key = key
       THEN (IF found THEN ParamsSet(Tail(params), key, value, TRUE)
             ELSE <<[key |-> key, value |-> value]>> \o ParamsSet(Tail(params), key, value, TRUE))
       ELSE <<Head(params)>> \o ParamsSet(Tail(params), key, value, found)

\* DashboardPage, lines 24-32: params.date is a string when the key occurs
\* once (undefined when absent, an array, which the pattern never matches,
\* when repeated); the date is parsed in local time, today otherwise.
PageDate(params, now) ==
  LET values == ParamValues(params, "date")
      date == IF Len(values) = 1 /\ values[1] # << >> /\ MatchesDatePattern(values[1])
              THEN LET parts == DateParts(values[1])
                   IN MakeLocalDate(parts.year, parts.month - 1, parts.day)
              ELSE now
  IN IF date = InvalidDate THEN now ELSE date

\* new Date(dateParam) of a string that matches the pattern: a date-only ISO
\* string means midnight UTC, shown in local time.  A day the month does not
\* have is rolled over by some engines and invalid in others; a month or day
\* outside 01-12 / 01-31 is invalid.
DateOfIsoString(s, offset) ==
  LET parts == DateParts(s)
  IN IF parts.month \notin 1..12 \/ parts.day \notin 1..31 THEN {InvalidDate}
     ELSE IF parts.day <= DaysInMonth(parts.year, parts.month)
     THEN {AddTicks(MakeLocalDate(parts.year, parts.month - 1, parts.day), offset)}
     ELSE {AddTicks(MakeLocalDate(parts.year, parts.month - 1, parts.day), offset),
           InvalidDate}

\* The useState initialiser of CalendarSelector, lines 14-21.
InitialSelectedDate(params, offset, now) ==
  LET dateParam == ParamsGet(params, "date")
  IN IF dateParam = None \/ Val(dateParam) = << >> THEN {now}
     ELSE {IF date = InvalidDate THEN now ELSE date :
             date \in DateOfIsoString(Val(dateParam), offset)}

\* Mutant: month and day are written without padStart.
DateStringUnpadded(date) ==
  Digits(Val(date).year) \o <<"-">> \o Digits((Val(date).month - 1) + 1)
    \o <<"-">> \o Digits(Val(date).day)

\* handleDateSelect, lines 30-33: getMonth() counts from 0.
DateString(date) ==
  Digits(Val(date).year) \o <<"-">> \o PadStart(Digits((Val(date).month - 1) + 1), 2)
    \o <<"-">> \o PadStart(Digits(Val(date).day), 2)

\* The days picked in the calendar: local midnight of days with one- and
\* two-digit months and days, in four-digit years.
PickedDates ==
  {Some([year |-> y, month |-> m, day |-> d, tick |-> Midnight]) :
     y \in {2024, 9999}, m \in {1, 10, 12}, d \in {1, 9, 10, 31}}

\* The `date` parameters of the URLs the dashboard is opened with: strings of
\* the form YYYY-MM-DD, not all of them days of the calendar.
DateParams ==
  {Digits(y) \o <<"-">> \o mm \o <<"-">> \o dd :
     y \in Years,
     mm \in {<<"0", "0">>, <<"0", "2">>, <<"1", "2">>, <<"1", "3">>},
     dd \in {<<"0", "0">>, <<"0", "1">>, <<"2", "9">>, <<"3", "0">>, <<"3", "1">>}}

\* The queries the dashboard is opened with.
InitialQueries ==
  {<< >>, <<[key |-> "view", value |-> <<"list">>]>>}
    \cup {<<[key |-> "date", value |-> s]>> : s \in DateParams}
    \cup {<<[key |-> "view", value |-> <<"list">>], [key |-> "date", value |-> s],
            [key |-> "date", value |-> <<"2", "0", "2", "4", "-", "0", "1", "-", "0", "1">>]>> :
            s \in {<< >>, <<"2", "0", "2", "5", "-", "1", "2", "-", "3", "1">>}}

NavInit ==
  /\ LoneCallIdle
  /\ CallsIdle
  /\ DatesIdle
  /\ DataIdle
  /\ action = << >>
  /\ page = << >>
  /\ form = << >>
  /\ \E offset \in TimeZoneOffsets, params \in InitialQueries, now \in ClockReadings :
       nav = Some([offset |-> offset, params |-> params, now |-> now, last |-> "open",
                   pageDate |-> None, selected |-> None, picked |-> None])

\* The dashboard is opened: DashboardPage renders and CalendarSelector mounts.
LoadPage ==
  /\ nav # << >>
  /\ Val(nav).last = "open"
  /\ \E selected \in InitialSelectedDate(Val(nav).params, Val(nav).offset, Val(nav).now) :
       nav' = Some([Val(nav) EXCEPT
                      !.last = "load",
                      !.pageDate = PageDate(Val(nav).params, Val(nav).now),
                      !.selected = selected])
  /\ UNCHANGED <<action, page, form>>
  /\ UNCHANGED <<vars, callVars, dateVars, dataVars>>

\* handleDateSelect(date), lines 24-39; the calendar passes undefined (None)
\* when the selected day is clicked again.
SelectDate ==
  /\ nav # << >>
  /\ Val(nav).last # "open"
  /\ \E date \in PickedDates \cup {None} :
       nav' = IF date = None THEN nav
              ELSE Some([Val(nav) EXCEPT
                           !.last = "select",
                           !.selected = date,
                           !.picked = date,
                           !.params = ParamsSet(@, "date", DateString(date), FALSE)])
  /\ UNCHANGED <<action, page, form>>
  /\ UNCHANGED <<vars, callVars, dateVars, dataVars>>

\* router.push: DashboardPage renders for the new query.
RenderPage ==
  /\ nav # << >>
  /\ Val(nav).last = "select"
  /\ nav' = Some([Val(nav) EXCEPT
                    !.last = "render",
                    !.pageDate = PageDate(Val(nav).params, Val(nav).now)])
  /\ UNCHANGED <<action, page, form>>
  /\ UNCHANGED <<vars, callVars, dateVars, dataVars>>

NavNext == LoadPage \/ SelectDate \/ RenderPage

SpecNav == NavInit /\ [][NavNext]_allVars

\* YYYY-MM-DD with leading zeros, written digit by digit.
ZeroPaddedDay(f) ==
  <<DigitChars[(f.year \div 1000) + 1], DigitChars[((f.year \div 100) % 10) + 1],
    DigitChars[((f.year \div 10) % 10) + 1], DigitChars[(f.year % 10) + 1], "-",
    DigitChars[(f.month \div 10) + 1], DigitChars[(f.month % 10) + 1], "-",
    DigitChars[(f.day \div 10) + 1], DigitChars[(f.day % 10) + 1]>>

SameDay(a, b) ==
  /\ Val(a).year = Val(b).year
  /\ Val(a).month = Val(b).month
  /\ Val(a).day = Val(b).day

\* C28: when the dashboard is opened with one `date` parameter of the form
\* YYYY-MM-DD, in any local time zone, the day CalendarSelector has selected
\* on first render is the calendar day DashboardPage fetches and labels.
C28_SelectedDayIsPageDay ==
  (/\ nav # << >>
   /\ Val(nav).last = "load"
   /\ Len(ParamValues(Val(nav).params, "date")) = 1
   /\ MatchesDatePattern(ParamValues(Val(nav).params, "date")[1]))
    => SameDay(Val(nav).selected, Val(nav).pageDate)

----------------------------------------------------------------------------
(* EditWorkoutPage,                                                        *)
(* src/src/app/dashboard/workout/new/create-workout-form.tsx lines 114-144 *)

MaxPageRows == 2

\* The workouts tables the page is rendered over: serial ids, any owners.
StoredTables ==
  UNION {[1..n -> Users] : n \in 0..MaxPageRows}

TableOf(owners) ==
  [i \in DOMAIN owners |->
     [id |-> i, userId |-> owners[i], name |-> None,
      startedAt |-> Some([year |-> 2025, month |-> 1, day |-> 1, tick |-> Midnight]),
      completedAt |-> None]]

\* The workoutId segments of the route: every stored id, one never stored,
\* and texts with a sign, white space, trailing or only letters.
WorkoutIdParams ==
  {Digits(n) : n \in 0..(MaxPageRows + 1)}
    \cup {<<"a", "b", "c">>, <<"1", "a">>, <<"a", "1">>, <<"-", "1">>, <<"+", "2">>,
          <<" ", "1">>, <<"0", "2">>, <<"-">>}

RECURSIVE TrimStart(_)
TrimStart(s) == IF s # << >> /\ Head(s) = " " THEN TrimStart(Tail(s)) ELSE s

\* parseInt(workoutId, 10): leading white space is skipped, a sign is read,
\* then the leading digits; NaN (None) without a digit.
ParseIntBase10(s) ==
  LET trimmed == TrimStart(s)
      signed == trimmed # << >> /\ Head(trimmed) \in {"+", "-"}
      digits == IF signed THEN Tail(trimmed) ELSE trimmed
  IN IF ParseInt(digits) = None THEN None
     ELSE IF signed /\ Head(trimmed) = "-" THEN Some(0 - Val(ParseInt(digits)))
     ELSE ParseInt(digits)

\* Mutant: the check of the fetched workout is missing.
NeverFalsy(workout) == FALSE

\* !workout: undefined is falsy, a row never is.
Falsy(workout) == workout = None

EditPageInit ==
  /\ LoneCallIdle
  /\ CallsIdle
  /\ DatesIdle
  /\ \E owners \in StoredTables : db = TableOf(owners)
  /\ lastCall = << >>
  /\ action = << >>
  /\ nav = << >>
  /\ form = << >>
  /\ page = << >>

\* Lines 119-124: the segment is parsed; notFound() throws for NaN.
EditPageParse ==
  /\ page = << >>
  /\ \E auth \in AuthResults, workoutId \in WorkoutIdParams :
       LET workoutIdNum == ParseIntBase10(workoutId)
       IN page' = Some([auth |-> auth, workoutId |-> workoutId,
                        workoutIdNum |-> workoutIdNum,
                        pc |-> IF workoutIdNum = None THEN "done" ELSE "fetch",
                        outcome |-> IF workoutIdNum = None THEN "notFound" ELSE "pending",
                        fetched |-> FALSE, workout |-> None])
  /\ UNCHANGED <<db, lastCall, action, nav, form>>
  /\ UNCHANGED <<vars, callVars, dateVars>>

\* Lines 126-142: getWorkout; notFound() without a workout, the form with it.
EditPageFetch ==
  /\ page # << >>
  /\ Val(page).pc = "fetch"
  /\ \E out \in GetWorkout(db, Val(page).auth, Val(Val(page).workoutIdNum)) :
       page' = Some([Val(page) EXCEPT
                       !.pc = "done",
                       !.fetched = TRUE,
                       !.outcome = IF out.threw # None THEN "error"
                                   ELSE IF Falsy(out.value) THEN "notFound"
                                   ELSE "rendered",
                       !.workout = IF out.threw # None \/ Falsy(out.value) THEN None
                                   ELSE out.value])
  /\ UNCHANGED <<db, lastCall, action, nav, form>>
  /\ UNCHANGED <<vars, callVars, dateVars>>

\* The response is sent; the next request starts afresh.
EditPageEnd ==
  /\ page # << >>
  /\ Val(page).pc = "done"
  /\ page' = << >>
  /\ UNCHANGED <<db, lastCall, action, nav, form>>
  /\ UNCHANGED <<vars, callVars, dateVars>>

EditPageNext == EditPageParse \/ EditPageFetch \/ EditPageEnd

SpecEditPage == EditPageInit /\ [][EditPageNext]_allVars

\* The stored workouts with this id that the caller owns.
OwnedWithId(auth, id) ==
  {w \in Range(db) : id # None /\ w.id = Val(id) /\ auth = Some(w.userId)}

\* C23: EditWorkoutPage renders the form only with the workout of the parsed
\* id that the signed-in user owns; a workoutId that parses to no number ends
\* in notFound() before any fetch, and for a signed-in user an id that names
\* no workout of theirs (missing or someone else's) ends in notFound();
\* whenever the form is not rendered no workout data is rendered.
C23_EditPageOwnWorkoutOnly ==
  (page # << >> /\ Val(page).pc = "done") =>
    LET p == Val(page)
        owned == OwnedWithId(p.auth, ParseIntBase10(p.workoutId))
    IN /\ p.outcome = "rendered" =>
            /\ p.auth # None
            /\ p.workout \in {Some(w) : w \in owned}
       /\ p.outcome # "rendered" => p.workout = None
       /\ ParseIntBase10(p.workoutId) = None => (p.outcome = "notFound" /\ ~p.fetched)
       /\ (p.auth # None /\ owned = {}) => p.outcome = "notFound"
       /\ (p.auth # None /\ owned # {}) => p.outcome = "rendered"

\* A signed-in user asks for a stored workout of someone else: notFound().
C23_Witness ==
  /\ page # << >>
  /\ Val(page).pc = "done"
  /\ Val(page).auth = Some("userA")
  /\ Val(page).workoutId = <<"2">>
  /\ Len(db) = 2
  /\ db[2].userId = "userB"
  /\ db[1].userId = "userA"
  /\ Val(page).outcome = "notFound"
  /\ Val(page).fetched

----------------------------------------------------------------------------
(* CreateWorkoutForm (src/src/app/dashboard/workout/new/                   *)
(* create-workout-form.tsx) and EditWorkoutForm (src/src/app/dashboard/    *)
(* workout/[workoutId]/edit-workout-form.tsx): the component state and     *)
(* handleSubmit, which is suspended at the await of the server action.     *)

FormKinds == {"create", "edit"}

\* What the user types into the name and the datetime-local inputs.
NameTexts == {"", "Legs"}

DateTimeTexts == {"", "2025-01-01T00:00"}

\* "Failed to create workout" / "Failed to update workout"
DefaultMessage(kind) ==
  IF kind = "create" THEN "Failed to create workout" ELSE "Failed to update workout"

\* What the awaited action call settles with: a result object (error absent
\* is None), or a rejection with an Error or with some other value.
ActionOutcomes ==
  {[threw |-> None, success |-> TRUE, error |-> None]}
    \cup {[threw |-> None, success |-> FALSE, error |-> e] :
            e \in {None, Some(""), Some("Validation failed"), Some("Unauthorized")}}
    \cup {[threw |-> Some(err), success |-> FALSE, error |-> None] :
            err \in {[isError |-> TRUE, message |-> "Failed to fetch"],
                     [isError |-> FALSE, message |-> ""]}}

\* useState initial values, from the clock (create) or the workout (edit).
InitialForm(kind, name, completedAt) ==
  [kind |-> kind,
   name |-> IF kind = "create" THEN "" ELSE name,
   startedAt |-> "2025-01-01T00:00",
   completedAt |-> IF kind = "create" THEN "" ELSE completedAt,
   isSubmitting |-> FALSE,
   error |-> None,
   pc |-> "idle",
   sent |-> None,
   atCall |-> None,
   settled |-> None,
   route |-> None,
   via |-> "none"]

\* value || undefined, value || null
OrAbsent(text, absent) == IF text = "" THEN absent ELSE Str(text)

\* The object handed to createWorkoutAction / updateWorkoutAction.
ActionInput(s) ==
  IF s.kind = "create"
  THEN [name |-> OrAbsent(s.name, Undefined), startedAt |-> Str(s.startedAt)]
  ELSE [id |-> Num(1), name |-> OrAbsent(s.name, Null), startedAt |-> Str(s.startedAt),
        completedAt |-> OrAbsent(s.completedAt, Null)]

\* result.error || default
ResultMessage(error, kind) ==
  IF error = None \/ error = Some("") THEN DefaultMessage(kind) ELSE Val(error)

\* err instanceof Error ? err.message : default
CaughtMessage(err, kind) == IF err.isError THEN err.message ELSE DefaultMessage(kind)

\* Mutant: setIsSubmitting(false) is missing after a failure.
ShowErrorOnly(s, message) == [s EXCEPT !.error = Some(message), !.pc = "idle"]

\* setError(message); setIsSubmitting(false)
ShowError(s, message) ==
  [s EXCEPT !.error = Some(message), !.isSubmitting = FALSE, !.pc = "idle"]

FormInit ==
  /\ LoneCallIdle
  /\ CallsIdle
  /\ DatesIdle
  /\ DataIdle
  /\ action = << >>
  /\ page = << >>
  /\ nav = << >>
  /\ \E kind \in FormKinds, name \in NameTexts, completedAt \in DateTimeTexts :
       form = Some(InitialForm(kind, name, completedAt))

\* onChange of an input; the inputs are disabled while isSubmitting.
FormChange ==
  /\ form # << >>
  /\ Val(form).pc = "idle"
  /\ ~Val(form).isSubmitting
  /\ \/ \E text \in NameTexts : form' = Some([Val(form) EXCEPT !.name = text])
     \/ \E text \in DateTimeTexts : form' = Some([Val(form) EXCEPT !.startedAt = text])
     \/ \E text \in DateTimeTexts :
          /\ Val(form).kind = "edit"
          /\ form' = Some([Val(form) EXCEPT !.completedAt = text])
  /\ UNCHANGED <<db, lastCall, action, page, nav>>
  /\ UNCHANGED <<vars, callVars, dateVars>>

\* handleSubmit up to the await: the submit button is disabled while
\* isSubmitting.  atCall is the state requested when the action is called;
\* settled keeps the outcome of the previous call.
FormSubmit ==
  /\ form # << >>
  /\ Val(form).pc = "idle"
  /\ ~Val(form).isSubmitting
  /\ LET s1 == [Val(form) EXCEPT !.isSubmitting = TRUE]
         s2 == [s1 EXCEPT !.error = None]
     IN form' = Some([s2 EXCEPT
                        !.pc = "calling",
                        !.sent = Some(ActionInput(s2)),
                        !.atCall = Some([isSubmitting |-> s2.isSubmitting,
                                         error |-> s2.error])])
  /\ UNCHANGED <<db, lastCall, action, page, nav>>
  /\ UNCHANGED <<vars, callVars, dateVars>>

\* handleSubmit after the await: the result branch or the catch.
FormSettle ==
  /\ form # << >>
  /\ Val(form).pc = "calling"
  /\ \E out \in ActionOutcomes :
       LET s == [Val(form) EXCEPT !.settled = Some(out)]
       IN form' = IF out.threw # None
                  THEN Some(ShowError(s, CaughtMessage(Val(out.threw), s.kind)))
                  ELSE IF out.success
                  THEN Some([s EXCEPT !.pc = "left", !.route = Some("/dashboard"),
                                      !.via = "submit"])
                  ELSE Some(ShowError(s, ResultMessage(out.error, s.kind)))
  /\ UNCHANGED <<db, lastCall, action, page, nav>>
  /\ UNCHANGED <<vars, callVars, dateVars>>

\* The Cancel button, disabled while isSubmitting: history.back() in the
\* create form, router.push("/dashboard") in the edit form.
FormCancel ==
  /\ form # << >>
  /\ Val(form).pc = "idle"
  /\ ~Val(form).isSubmitting
  /\ form' = Some([Val(form) EXCEPT
                     !.pc = "left",
                     !.route = IF Val(form).kind = "create" THEN Some("back")
                               ELSE Some("/dashboard"),
                     !.via = "cancel"])
  /\ UNCHANGED <<db, lastCall, action, page, nav>>
  /\ UNCHANGED <<vars, callVars, dateVars>>

\* The form is opened again after the user has left it.
FormOpen ==
  /\ form # << >>
  /\ Val(form).pc = "left"
  /\ \E kind \in FormKinds, name \in NameTexts, completedAt \in DateTimeTexts :
       form' = Some(InitialForm(kind, name, completedAt))
  /\ UNCHANGED <<db, lastCall, action, page, nav>>
  /\ UNCHANGED <<vars, callVars, dateVars>>

FormNext == FormChange \/ FormSubmit \/ FormSettle \/ FormCancel \/ FormOpen

SpecForms == FormInit /\ [][FormNext]_allVars

\* C26: in both forms, a submission has set isSubmitting and cleared the
\* previous error when the action is called; a submission navigates, and
\* only to /dashboard, only after the action returned success; after a
\* failed result or a thrown error a non-empty error message is shown and
\* isSubmitting is false again, so the form is disabled exactly while the
\* call is pending or the submission has navigated.
C26_SubmitProtocol ==
  [][(form # << >> /\ form' # << >>) =>
       LET s == Val(form)
           n == Val(form')
       IN /\ (s.pc = "idle" /\ n.pc = "calling") =>
               /\ n.atCall = Some([isSubmitting |-> TRUE, error |-> None])
               /\ n.isSubmitting
               /\ n.error = None
               /\ n.route = None
          /\ (n.via = "submit" /\ n.route # s.route) =>
               /\ s.pc = "calling"
               /\ n.route = Some("/dashboard")
               /\ Val(n.settled).threw = None
               /\ Val(n.settled).success
          /\ (s.pc = "calling" /\ n.settled # None /\ ~(Val(n.settled).threw = None /\ Val(n.settled).success)) =>
               /\ n.error \notin {None, Some("")}
               /\ ~n.isSubmitting
               /\ n.route = None
               /\ n.pc = "idle"
          /\ n.isSubmitting <=> (n.pc = "calling" \/ (n.pc = "left" /\ n.via = "submit"))]_form

\* A second submission after a failed one: the error of the first has been
\* cleared and the call is pending.
C26_Witness ==
  /\ form # << >>
  /\ Val(form).pc = "calling"
  /\ Val(form).isSubmitting
  /\ Val(form).error = None
  /\ Val(form).kind = "edit"
  /\ Val(form).settled # None
  /\ Val(Val(form).settled).threw # None
  /\ Val(Val(form).sent).name = Null

====
